---- MODULE Spec2Model ----
(***************************************************************************)
(* Federated IoT IDS prototype: the telemetry / scoring / alerting engine. *)
(*                                                                         *)
(* Two backends live in the repository and both are modelled here:         *)
(*   - the modular backend: store.js + detector.js + simulator.js          *)
(*     (state: store, timer, intervals, out);                              *)
(*   - the single-file backend server.js                                   *)
(*     (state: devices, alerts, telemetry, environment, stats,             *)
(*      globalModel, timeseries, simTimer, srvIntervals, broadcasts,       *)
(*      response, clients, clock).                                         *)
(*                                                                         *)
(* Numbers are fixed point:                                                *)
(*   levels (attackLevel, driftLevel)      hundredths        (100 = 1.0)   *)
(*   scores, thresholds, drift scores      ten-thousandths   (10000 = 1.0) *)
(*   recorded (toFixed(3)) values          thousandths                     *)
(*   accuracies                            millionths                      *)
(*   failedAuth                            tenths                          *)
(*   Math.random() draws                   hundredths, 0..99               *)
(*   randn() draws                         tenths                          *)
(***************************************************************************)
EXTENDS Integers, Sequences, FiniteSets, TLC

VARIABLES
    backend,        \* which backend the process runs: "modular" or "server"
    store,          \* store.js: the exported store object
    timer,          \* simulator.js: let timer (0 = null, else a timer id)
    intervals,      \* the event loop's active setInterval timers (modular backend)
    out,            \* what the last step handed to the sink onOut, in order
    selection,      \* simulator.js: count and selected of the last tick, and whether its loop runs
    devices,        \* server.js: let devices
    alerts,         \* server.js: let alerts
    telemetry,      \* server.js: let telemetry
    environment,    \* server.js: let environment
    stats,          \* server.js: let stats
    globalModel,    \* server.js: let globalModel
    timeseries,     \* server.js: let timeseries
    simTimer,       \* server.js: let simTimer (0 = null, else a timer id)
    srvIntervals,   \* the event loop's active setInterval timers (server.js)
    broadcasts,     \* what the last step handed to broadcast(), in order
    response,       \* what the last step answered its HTTP request with
    clients,        \* server.js: wss.clients, and what the last step sent to each
    clock           \* server.js: the reading of Date.now(), a logical clock

simVars == <<store, timer, intervals, out>>
srvVars == <<devices, alerts, telemetry, environment, stats, globalModel,
             timeseries, simTimer, srvIntervals, broadcasts, response, clients,
             clock>>
vars == <<backend, store, timer, intervals, out, selection, devices, alerts, telemetry, environment,
          stats, globalModel, timeseries, simTimer, srvIntervals, broadcasts,
          response, clients, clock>>

(***************************************************************************)
(* Bounds of the model.                                                    *)
(***************************************************************************)
\* devices createDevice may register in the modular backend
MaxDevices == 3
\* events the modular backend processes before the model stops ticking
MaxEvents == 2
\* readings of Date.now() (ticks and rounds) of server.js before the model stops
MaxClock == 2

(***************************************************************************)
(* Arithmetic helpers.                                                     *)
(***************************************************************************)
Min(a, b) == IF a <= b THEN a ELSE b
Max(a, b) == IF a >= b THEN a ELSE b
Abs(x) == IF x < 0 THEN -x ELSE x

\* Math.round(x / q) for q > 0: to the nearest integer, halves upwards
RoundDiv(x, q) == (2 * x + q) \div (2 * q)

RECURSIVE GCD(_, _)
GCD(a, b) == IF b = 0 THEN a ELSE GCD(b, a % b)

RECURSIVE ISqrtIter(_, _, _)
ISqrtIter(n, lo, hi) ==
    IF lo >= hi THEN lo
    ELSE LET mid == (lo + hi + 1) \div 2
         IN  IF mid * mid <= n THEN ISqrtIter(n, mid, hi)
             ELSE ISqrtIter(n, lo, mid - 1)

\* floor(Math.sqrt(n)) for 0 <= n < 2^31
ISqrt(n) == ISqrtIter(n, 0, Min(n, 46340))

\* a ratio of two counters as the reduced fraction <<numerator, denominator>>
Frac(n, d) == LET g == GCD(n, d) IN IF n = 0 THEN <<0, 1>> ELSE <<n \div g, d \div g>>
FracZero == <<0, 1>>
FracAdd(p, q) == Frac(p[1] * q[2] + q[1] * p[2], p[2] * q[2])
FracMul(p, q) == Frac(p[1] * q[1], p[2] * q[2])
FracDiv(p, q) == Frac(p[1] * q[2], p[2] * q[1])
FracLeq(p, q) == p[1] * q[2] <= q[1] * p[2]

\* detector.js clamp
clamp(x, lo, hi) == Max(lo, Min(hi, x))

\* Number(x.toFixed(3)) of a value held in ten-thousandths, as thousandths
ToFixed3(x) == RoundDiv(x, 10)

(***************************************************************************)
(* store.js                                                                *)
(***************************************************************************)
\* addTelemetry: the telemetry log keeps at most this many events
StoreTelemetryMax == 600
\* addAlert: the alert log keeps at most this many alerts
StoreAlertsMax == 400
\* pushTimeseriesSnapshot: const max
StoreTimeseriesMax == 250
\* createDevice: maxWindow
MaxWindow == 200
\* createDevice: driftScore of a new device (0.05)
InitialDriftScore == 500
\* createDevice: baseAccuracy and localAccuracy of a new device (0.92)
BaseAccuracy == 920000

\* device.baseline: null
NoBaseline == [set |-> FALSE]

\* const store = {...}: the state the module is loaded with
InitialStore ==
    [ devices     |-> << >>,
      telemetry   |-> << >>,
      alerts      |-> << >>,
      environment |-> [ simulatorRunning |-> FALSE, attackLevel |-> 0,
                        driftLevel |-> 0, attackType |-> "none" ],
      globalModel |-> [ round |-> 1, accuracy |-> 920000 ],
      stats       |-> [ totalEvents |-> 0, TP |-> 0, FP |-> 0, TN |-> 0, FN |-> 0,
                        precision |-> FracZero, recall |-> FracZero,
                        f1 |-> FracZero, fpRate |-> FracZero,
                        timeseries |-> [ t |-> << >>, f1 |-> << >>, fpRate |-> << >>,
                                         globalAccuracy |-> << >>,
                                         attackLevel |-> << >>, driftLevel |-> << >> ] ] ]

\* Date.now() of pushTimeseriesSnapshot: a logical clock, the number of events
\* processed so far. The other wall-clock fields (evt.ts, alert.ts,
\* device.lastSeen) are written and never read by the engine; they are left out.
now(st) == st.stats.totalEvents

\* the device createDevice builds; ids are handed out in creation order
\* (name, model, dataSize, localW and lastSeen are never read by the engine and
\* are left out)
NewDevice(st) ==
    [ id            |-> Len(st.devices) + 1,
      quarantined   |-> FALSE,
      window        |-> << >>,
      maxWindow     |-> MaxWindow,
      baseline      |-> NoBaseline,
      driftScore    |-> InitialDriftScore,
      baseAccuracy  |-> BaseAccuracy,
      localAccuracy |-> BaseAccuracy ]

\* createDevice: store.devices.set(id, device)
createDevice(st) == [st EXCEPT !.devices = Append(@, NewDevice(st))]

\* snapshotDevice: driftScore rounded to 3 decimals, localAccuracy to 3 decimals
snapshotDevice(d) ==
    [ id            |-> d.id,
      quarantined   |-> d.quarantined,
      driftScore    |-> ToFixed3(d.driftScore),
      localAccuracy |-> RoundDiv(d.localAccuracy, 1000) ]

\* arr.unshift(x); if (arr.length > cap) arr.pop()
UnshiftCapped(arr, x, cap) ==
    LET a == <<x>> \o arr
    IN  IF Len(a) > cap THEN SubSeq(a, 1, Len(a) - 1) ELSE a

\* arr.push(x) that gives up the new element when the array is full
PushShiftDroppingNewest(arr, x, cap) ==
    IF Len(arr) >= cap THEN arr ELSE Append(arr, x)

\* arr.push(x); if (arr.length > cap) arr.shift()
PushShift(arr, x, cap) ==
    LET a == Append(arr, x)
    IN  IF Len(a) > cap THEN Tail(a) ELSE a

addTelemetry(st, evt) ==
    [st EXCEPT !.telemetry = UnshiftCapped(@, evt, StoreTelemetryMax)]

addAlert(st, alert) ==
    [st EXCEPT !.alerts = UnshiftCapped(@, alert, StoreAlertsMax)]

pushTimeseriesSnapshot(st) ==
    LET s == st.stats
        ts == s.timeseries
    IN  [st EXCEPT !.stats.timeseries =
            [ t              |-> PushShift(ts.t, now(st), StoreTimeseriesMax),
              f1             |-> PushShift(ts.f1, s.f1, StoreTimeseriesMax),
              fpRate         |-> PushShift(ts.fpRate, s.fpRate, StoreTimeseriesMax),
              globalAccuracy |-> PushShift(ts.globalAccuracy, st.globalModel.accuracy,
                                           StoreTimeseriesMax),
              attackLevel    |-> PushShift(ts.attackLevel, st.environment.attackLevel,
                                           StoreTimeseriesMax),
              driftLevel     |-> PushShift(ts.driftLevel, st.environment.driftLevel,
                                           StoreTimeseriesMax) ]]

(***************************************************************************)
(* detector.js                                                             *)
(***************************************************************************)
\* BENIGN: packetsMean, packetsStd, failedMean (tenths), failedStd (tenths),
\* bytesOutMean, bytesOutStd
BenignPacketsMean == 200
BenignPacketsStd == 40
BenignFailedMean == 5
BenignFailedStd == 7
BenignBytesOutMean == 25000
BenignBytesOutStd == 8000

\* |z(x, mean, std)| in hundredths (std is never 0 for the BENIGN constants)
z(x, mean, std) == RoundDiv(Abs(x - mean) * 100, std)

\* clamp(Math.sqrt(sq) / 4, 0, 1) for the sum sq of the squared z values
\* (hundredths squared), in ten-thousandths. A distance of 4 or more is clamped
\* to 1 before the root is taken.
ScoreOfSquares(sq) ==
    IF sq >= 160000 THEN 10000 ELSE clamp(ISqrt(sq * 625), 0, 10000)

Square(x) == x * x

\* anomalyScore: clamp(sqrt(zp^2 + zf^2 + zb^2) / 4, 0, 1), in ten-thousandths
anomalyScore(features) ==
    ScoreOfSquares(
        Square(z(features.packetsPerSec, BenignPacketsMean, BenignPacketsStd))
      + Square(z(features.failedAuth, BenignFailedMean, BenignFailedStd))
      + Square(z(features.bytesOut, BenignBytesOutMean, BenignBytesOutStd)))

\* the sum of s[lo..hi], by halves
RECURSIVE SumRange(_, _, _)
SumRange(s, lo, hi) ==
    IF lo > hi THEN 0
    ELSE IF lo = hi THEN s[lo]
    ELSE SumRange(s, lo, (lo + hi) \div 2) + SumRange(s, (lo + hi) \div 2 + 1, hi)

\* arr.reduce((a, b) => a + b, 0)
SumSeq(s) == SumRange(s, 1, Len(s))

\* mean(arr), in the unit of arr
mean(arr) == SumSeq(arr) \div Len(arr)

\* the root of the mean squared distance of arr from m
StdAround(arr, m, n) ==
    ISqrt(SumSeq([i \in DOMAIN arr |-> ((arr[i] - m) * (arr[i] - m)) \div n]))

\* std(arr), in the unit of arr
std(arr) == StdAround(arr, mean(arr), Len(arr))

\* d / s in ten-thousandths for a distance d >= 0; 9 or more saturates the
\* drift score
RatioOf(d, s) ==
    IF d >= 9 * s THEN 90000
    ELSE IF d <= 200000 THEN (d * 10000) \div s
    ELSE ((d \div 100) * 10000) \div Max(1, s \div 100)

\* |a - b| / s in ten-thousandths
DriftRatio(a, b, s) == RatioOf(Abs(a - b), s)

\* x || 1
OrOne(x) == IF x = 0 THEN 1 ELSE x

\* mean and std of one feature over the window: one pair of recent
FeatureStats(values) == [m |-> mean(values), s |-> OrOne(std(values))]

\* the record recent is built from the three pairs
StatsRecord(pk, fa, bo) ==
    [ set |-> TRUE,
      pkMean |-> pk.m, pkStd |-> pk.s,
      faMean |-> fa.m, faStd |-> fa.s,
      boMean |-> bo.m, boStd |-> bo.s ]

\* the window statistics computeDriftScore calls recent
\* (packets as they are, failedAuth in tenths, bytesOut in hundreds of bytes)
RecentStats(window) ==
    StatsRecord(
        FeatureStats([i \in DOMAIN window |-> window[i].features.packetsPerSec]),
        FeatureStats([i \in DOMAIN window |-> window[i].features.failedAuth]),
        FeatureStats([i \in DOMAIN window |-> window[i].features.bytesOut \div 100]))

\* the drift of recent against the baseline: clamp(d / 3, 0, 1)
DriftAgainst(recent, baseline) ==
    clamp(((DriftRatio(recent.pkMean, baseline.pkMean, baseline.pkStd)
            + DriftRatio(recent.faMean, baseline.faMean, baseline.faStd)
            + DriftRatio(recent.boMean, baseline.boMean, baseline.boStd)) \div 3)
          \div 3, 0, 10000)

\* computeDriftScore once the baseline is decided
DriftWithBaseline(device, recent, baseline) ==
    IF ~baseline.set
    THEN [score |-> device.driftScore, baseline |-> baseline]
    ELSE [score |-> DriftAgainst(recent, baseline), baseline |-> baseline]

\* computeDriftScore taking a new baseline from every window of 60 or more events
DriftWithRecentRebasing(device, recent) ==
    DriftWithBaseline(device, recent,
                      IF Len(device.window) >= 60 THEN recent ELSE device.baseline)


\* computeDriftScore taking its baseline from the first window of 30 events
DriftWithRecentFromThirty(device, recent) ==
    DriftWithBaseline(device, recent,
                      IF ~device.baseline.set /\ Len(device.window) >= 30
                      THEN recent ELSE device.baseline)

\* computeDriftScore once recent is computed: the baseline is set from the
\* first window of 60 or more events
DriftWithRecent(device, recent) ==
    DriftWithBaseline(device, recent,
                      IF ~device.baseline.set /\ Len(device.window) >= 60
                      THEN recent ELSE device.baseline)

\* computeDriftScore(device): the score it returns and the baseline it leaves
\* in the device
computeDriftScore(device) ==
    IF Len(device.window) < 30
    THEN [score |-> device.driftScore, baseline |-> device.baseline]
    ELSE DriftWithRecent(device, RecentStats(device.window))

\* n / d, 0 when d is 0
Ratio(n, d) == IF d = 0 THEN FracZero ELSE Frac(n, d)

\* (2 * precision * recall) / (precision + recall), 0 when the sum is 0
F1Of(precision, recall) ==
    IF FracAdd(precision, recall) = FracZero THEN FracZero
    ELSE FracDiv(FracMul(<<2, 1>>, FracMul(precision, recall)),
                 FracAdd(precision, recall))

\* updateMetrics without the assignment of line 91
DerivedMetricsKeepingFpRate(s) ==
    [s EXCEPT !.precision = Ratio(s.TP, s.TP + s.FP),
              !.recall = Ratio(s.TP, s.TP + s.FN),
              !.f1 = F1Of(Ratio(s.TP, s.TP + s.FP), Ratio(s.TP, s.TP + s.FN))]

\* updateMetrics: precision, recall, f1 and fpRate from the counters
DerivedMetrics(s) ==
    [s EXCEPT !.precision = Ratio(s.TP, s.TP + s.FP),
              !.recall = Ratio(s.TP, s.TP + s.FN),
              !.f1 = F1Of(Ratio(s.TP, s.TP + s.FP), Ratio(s.TP, s.TP + s.FN)),
              !.fpRate = Ratio(s.FP, s.FP + s.TN)]

\* updateMetrics: the counter the event falls in
CountEvent(s, trueAttack, predictedAttack) ==
    [s EXCEPT !.TP = @ + (IF trueAttack /\ predictedAttack THEN 1 ELSE 0),
              !.FP = @ + (IF ~trueAttack /\ predictedAttack THEN 1 ELSE 0),
              !.TN = @ + (IF ~trueAttack /\ ~predictedAttack THEN 1 ELSE 0),
              !.FN = @ + (IF trueAttack /\ ~predictedAttack THEN 1 ELSE 0)]

\* updateMetrics with the false-positive test reduced to the prediction alone
updateMetricsCountingEveryAlarm(s, trueAttack, predictedAttack) ==
    [s EXCEPT !.TP = @ + (IF trueAttack /\ predictedAttack THEN 1 ELSE 0),
              !.FP = @ + (IF predictedAttack THEN 1 ELSE 0),
              !.TN = @ + (IF ~trueAttack /\ ~predictedAttack THEN 1 ELSE 0),
              !.FN = @ + (IF trueAttack /\ ~predictedAttack THEN 1 ELSE 0)]

\* updateMetrics({trueAttack, predictedAttack}) on store.stats
updateMetrics(s, trueAttack, predictedAttack) ==
    DerivedMetrics(CountEvent(s, trueAttack, predictedAttack))

severityFromDriftOfNormalOnly(score, drift, predictedAttack) ==
    IF predictedAttack /\ score >= 8000 THEN "high"
    ELSE IF predictedAttack /\ score >= 6000 THEN "medium"
    ELSE IF ~predictedAttack /\ drift >= 5500 THEN "medium"
    ELSE "low"


severityFrom(score, drift, predictedAttack) ==
    IF predictedAttack /\ score >= 8000 THEN "high"
    ELSE IF predictedAttack /\ score >= 6000 THEN "medium"
    ELSE IF drift >= 5500 THEN "medium"
    ELSE "low"

\* maybeCreateAlert returns null
NoAlert == [none |-> TRUE]

maybeCreateAlertOnAttackOnly(device, score, driftScore, predictedAttack) ==
    IF ~predictedAttack THEN NoAlert
    ELSE [ none        |-> FALSE,
           deviceId    |-> device.id,
           type        |-> "anomaly",
           severity    |-> severityFrom(score, driftScore, predictedAttack),
           score       |-> ToFixed3(score),
           driftScore  |-> ToFixed3(driftScore),
           quarantined |-> device.quarantined ]


maybeCreateAlert(device, score, driftScore, predictedAttack) ==
    LET isDriftAlert == driftScore >= 5500
        isAnomAlert == predictedAttack
    IN  IF ~isDriftAlert /\ ~isAnomAlert THEN NoAlert
        ELSE [ none        |-> FALSE,
               deviceId    |-> device.id,
               type        |-> IF isAnomAlert THEN "anomaly" ELSE "drift",
               severity    |-> severityFrom(score, driftScore, predictedAttack),
               score       |-> ToFixed3(score),
               driftScore  |-> ToFixed3(driftScore),
               quarantined |-> device.quarantined ]

(***************************************************************************)
(* simulator.js                                                            *)
(***************************************************************************)
\* One selected device's random draws, in the order the code makes them:
\*   u            Math.random() of the attack decision (hundredths)
\*   n1, n2, n3   randn() of benignTelemetry: packets, failed, bytesOut (tenths)
\*   a1, a2       the first and second randn() of attackTelemetry (tenths)
Quiet == [u |-> 50, n1 |-> 0,  n2 |-> 0,  n3 |-> 0,  a1 |-> 0,  a2 |-> 0]
Loud == [u |-> 0,  n1 |-> 30, n2 |-> 20, n3 |-> 25, a1 |-> 12, a2 |-> -8]

\* the draws of one tick, one record per selected device
SimTickDraws ==
    { <<Quiet, Quiet, Quiet>>, <<Loud, Quiet, Loud>> }

\* benignTelemetry(driftLevel) under the draws dr
benignTelemetry(driftLevel, dr) ==
    LET \* 200 * driftBoost + randn() * (40 + driftLevel * 25), in 1/10000
        packets == 2000 * (1000 + 8 * driftLevel) + dr.n1 * (40000 + 250 * driftLevel)
        \* Math.max(0, 0.5 + randn() * (0.7 + driftLevel * 0.4)), in 1/10000
        failed == Max(0, 5000 + dr.n2 * (700 + 4 * driftLevel))
        \* Math.max(0, 25000 * driftBoost + randn() * (8000 + driftLevel * 6000)), in 1/100
        bytesOut == Max(0, 2500 * (1000 + 8 * driftLevel)
                           + dr.n3 * (80000 + 600 * driftLevel))
    IN  [ packetsPerSec |-> RoundDiv(clamp(packets, 200000, 14000000), 10000),
          failedAuth    |-> RoundDiv(clamp(failed, 0, 800000), 1000),
          bytesOut      |-> RoundDiv(clamp(bytesOut, 100000, 40000000), 100) ]

\* attackTelemetry after "const base = benignTelemetry(driftLevel)";
\* k = 1 + intensity * 2.2, in thousandths
AttackFrom(type, base, k, dr) ==
    IF type = "port_scan" THEN
        [ base EXCEPT
            !.packetsPerSec =
                RoundDiv(clamp(base.packetsPerSec * 3 * k, 160000, 7000000), 2000),
            !.failedAuth =
                RoundDiv(clamp(base.failedAuth * 100 + dr.a1 * 60, 0, 10000), 100) ]
    ELSE IF type = "bruteforce" THEN
        [ base EXCEPT
            !.failedAuth =
                RoundDiv(clamp(base.failedAuth * 100 + 6 * k + Abs(dr.a1) * 300,
                               0, 120000), 100),
            !.packetsPerSec =
                RoundDiv(clamp(base.packetsPerSec * 115 * k, 4000000, 250000000),
                         100000) ]
    ELSE IF type = "ddos" THEN
        [ base EXCEPT
            !.packetsPerSec =
                RoundDiv(clamp(base.packetsPerSec * 10 + 9 * k + Abs(dr.a1) * 600,
                               2500, 80000), 10),
            !.bytesOut =
                clamp(base.bytesOut + 70 * k + Abs(dr.a2) * 5000, 8000, 1200000) ]
    ELSE IF type = "exfiltration" THEN
        [ base EXCEPT
            !.bytesOut =
                clamp(base.bytesOut + 150 * k + Abs(dr.a1) * 8000, 15000, 1500000),
            !.packetsPerSec =
                RoundDiv(clamp(base.packetsPerSec * 12 * k, 500000, 26000000),
                         10000) ]
    ELSE \* generic
        [ base EXCEPT
            !.packetsPerSec =
                RoundDiv(clamp(base.packetsPerSec * 135 * k, 6000000, 350000000),
                         100000),
            !.failedAuth =
                RoundDiv(clamp(base.failedAuth * 100 + 2 * k + Abs(dr.a1) * 100,
                               0, 100000), 100) ]

\* attackTelemetry with k = 1 whatever the intensity
attackTelemetryIgnoringIntensity(type, intensity, driftLevel, dr) ==
    AttackFrom(type, benignTelemetry(driftLevel, dr), 1000, dr)


\* attackTelemetry(type, intensity, driftLevel) under the draws dr
attackTelemetry(type, intensity, driftLevel, dr) ==
    AttackFrom(type, benignTelemetry(driftLevel, dr), 1000 + 22 * intensity, dr)

\* the threshold of line 83 with the drift term subtracted
DetectionThresholdLoweredByDrift(driftLevel) ==
    clamp(5500 - 15 * driftLevel, 4500, 8500)

\* processTelemetry: clamp(0.55 + env.driftLevel * 0.15, 0.45, 0.85)
DetectionThreshold(driftLevel) == clamp(5500 + 15 * driftLevel, 4500, 8500)

\* processTelemetry returns { evt: null, alert: null }
NoEvt == [none |-> TRUE]
NoResult == [evt |-> NoEvt, alert |-> NoAlert]

\* position of the device with this id in store.devices, 0 when there is none
DeviceIndex(st, id) ==
    IF \E i \in DOMAIN st.devices : st.devices[i].id = id
    THEN CHOOSE i \in DOMAIN st.devices : st.devices[i].id = id
    ELSE 0

\* The body of processTelemetry({device, features, trueLabel}) after its early
\* return, statement by statement; each operator takes what the statements
\* before it computed. dv is the device's position in store.devices, 0 for a
\* missing device; trueLabel "" is a missing label.

\* the event with its verdict taken from the rounded score and threshold
NewEvtJudgingRecorded(device, features, trueLabel, score, threshold) ==
    [ none      |-> FALSE,
      deviceId  |-> device.id,
      features  |-> features,
      trueLabel |-> IF trueLabel = "" THEN "Unknown" ELSE trueLabel,
      predicted |-> IF ToFixed3(score) > ToFixed3(threshold) THEN "Attack" ELSE "Normal",
      score     |-> ToFixed3(score),
      threshold |-> ToFixed3(threshold) ]


\* const evt = {...}
NewEvt(device, features, trueLabel, score, threshold) ==
    [ none      |-> FALSE,
      deviceId  |-> device.id,
      features  |-> features,
      trueLabel |-> IF trueLabel = "" THEN "Unknown" ELSE trueLabel,
      predicted |-> IF score > threshold THEN "Attack" ELSE "Normal",
      score     |-> ToFixed3(score),
      threshold |-> ToFixed3(threshold) ]

\* device.localAccuracy =
\*   clamp(baseAccuracy * (1 - attackLevel * 0.15 - driftScore * 0.22), 0.4, 0.99)
LocalAccuracy(device, env, driftScore) ==
    clamp(((device.baseAccuracy \div 10000)
              * (1000000 - 1500 * env.attackLevel - 22 * driftScore)) \div 100,
          400000, 990000)

\* the device after its drift score and local accuracy are updated
DeviceWithDrift(device, env, drift) ==
    [device EXCEPT !.baseline = drift.baseline,
                   !.driftScore = drift.score,
                   !.localAccuracy = LocalAccuracy(device, env, drift.score)]

\* const driftScore = computeDriftScore(device) on the device with its new window
DeviceWithWindow(device, env) ==
    DeviceWithDrift(device, env, computeDriftScore(device))

\* device.window.push(evt); if (length > maxWindow) shift(); then the drift
\* score and the local accuracy
TrackedDevice(device, env, evt) ==
    DeviceWithWindow(
        [device EXCEPT !.window = PushShift(device.window, evt, device.maxWindow)],
        env)

\* store.stats.totalEvents += 1; updateMetrics(...); addTelemetry(evt)
Recorded(st, dv, device, evt, trueAttack, predictedAttack) ==
    addTelemetry(
        [st EXCEPT !.devices[dv] = device,
                   !.stats = updateMetrics([@ EXCEPT !.totalEvents = @ + 1],
                                           trueAttack, predictedAttack)],
        evt)

\* pushTimeseriesSnapshot() after every event
SnapshotEveryEvent(st) == pushTimeseriesSnapshot(st)


\* if (store.stats.totalEvents % 10 === 0) pushTimeseriesSnapshot()
SnapshotWhenDue(st) ==
    IF st.stats.totalEvents % 10 = 0 THEN pushTimeseriesSnapshot(st) ELSE st

\* if (alert) addAlert(alert); the snapshot; return { evt, alert, device }
Alerted(st, alert, evt, device) ==
    [st  |-> SnapshotWhenDue(IF alert.none THEN st ELSE addAlert(st, alert)),
     res |-> [evt |-> evt, alert |-> alert, device |-> snapshotDevice(device)]]

\* from the stats update on, for the updated device
ProcessTracked(st, dv, device, evt, trueLabel, score, predictedAttack) ==
    Alerted(Recorded(st, dv, device, evt, trueLabel = "Attack", predictedAttack),
            maybeCreateAlert(device, score, device.driftScore, predictedAttack),
            evt, device)

\* from the window update on, for the event built
ProcessWithEvt(st, dv, evt, trueLabel, score, predictedAttack) ==
    ProcessTracked(st, dv, TrackedDevice(st.devices[dv], st.environment, evt),
                   evt, trueLabel, score, predictedAttack)

\* from "const predictedAttack = score > threshold" on
ProcessScored(st, dv, features, trueLabel, score, threshold) ==
    ProcessWithEvt(st, dv,
                   NewEvt(st.devices[dv], features, trueLabel, score, threshold),
                   trueLabel, score, score > threshold)

\* processTelemetry scoring against a baseline that moves with the drift level
ProcessEventScoringByDrift(st, dv, features, trueLabel) ==
    ProcessScored(st, dv, features, trueLabel,
                  clamp(anomalyScore(features) - 10 * st.environment.driftLevel,
                        0, 10000),
                  DetectionThreshold(st.environment.driftLevel))


\* processTelemetry after the early return of its first line: the store it
\* leaves and the value it returns
ProcessEvent(st, dv, features, trueLabel) ==
    ProcessScored(st, dv, features, trueLabel,
                  anomalyScore(features),
                  DetectionThreshold(st.environment.driftLevel))

\* processTelemetry without the quarantine test of its first line
processTelemetryOfAnyDevice(st, dv, features, trueLabel) ==
    IF dv = 0
    THEN [st |-> st, res |-> NoResult]
    ELSE ProcessEvent(st, dv, features, trueLabel)

\* if (!device || device.quarantined) return { evt: null, alert: null }
processTelemetry(st, dv, features, trueLabel) ==
    IF dv = 0 \/ st.devices[dv].quarantined
    THEN [st |-> st, res |-> NoResult]
    ELSE ProcessEvent(st, dv, features, trueLabel)

\* the tick's attack probability:
\* clamp(0.03 + env.attackLevel * 0.55 + env.driftLevel * 0.15, 0, 0.95), in 1/10000
AttackProbability(env) ==
    clamp(300 + 55 * env.attackLevel + 15 * env.driftLevel, 0, 9500)

\* isAttack without the test of the attack type
IsAttackWhateverType(env, dr) == dr.u * 100 < AttackProbability(env)

\* const isAttack = env.attackType !== "none" && Math.random() < pAttack
IsAttack(env, dr) == env.attackType # "none" /\ dr.u * 100 < AttackProbability(env)

\* no tick has run its selection loop yet
NoSelection == [running |-> FALSE, count |-> 0, selected |-> << >>]

\* count = 3 for ddos whatever the number of registered devices
SelectCountAlwaysThree(env, n) == IF env.attackType = "ddos" THEN 3 ELSE 1


\* count = env.attackType === "ddos" ? Math.min(3, deviceIds.length) : 1
SelectCount(env, n) == IF env.attackType = "ddos" THEN Min(3, n) ELSE 1

\* the selection loop without the selected.includes(id) test
SelectionsWithRepeats(ids, count) == [1..count -> ids]

\* the lists the selection loop can end with: it pushes a picked id only when
\* the list does not hold it yet, and stops at count ids
Selections(ids, count) ==
    { sel \in [1..count -> ids] :
        \A i, j \in 1..count : i # j => sel[i] # sel[j] }

\* what the sink is handed, and the statistics an overview read inside the
\* sink returns: the store as the call of processTelemetry left it
Delivered(r) ==
    [evt |-> r.res.evt, alert |-> r.res.alert, device |-> r.res.device,
     overview |-> r.st.stats]

\* onOut handed the statistics of the store before processTelemetry ran
EmitBeforeCounting(acc, r) ==
    [st  |-> r.st,
     out |-> IF r.res.evt.none THEN acc.out
             ELSE Append(acc.out, [Delivered(r) EXCEPT !.overview = acc.st.stats])]

\* if (onOut && out && out.evt) onOut(out): acc.st is the store, acc.out what
\* went to onOut so far, r what processTelemetry returned
Emit(acc, r) ==
    [st  |-> r.st,
     out |-> IF r.res.evt.none THEN acc.out ELSE Append(acc.out, Delivered(r))]

\* the features and the label of one device's sample, and the call of
\* processTelemetry
TickSample(st, dv, isAttack, dr) ==
    processTelemetry(st, dv,
                     IF isAttack
                     THEN attackTelemetry(st.environment.attackType,
                                          st.environment.attackLevel,
                                          st.environment.driftLevel, dr)
                     ELSE benignTelemetry(st.environment.driftLevel, dr),
                     IF isAttack THEN "Attack" ELSE "Normal")

\* one pass of "for (const id of selected)" for the device at position dv
TickDevice(acc, dv, dr) ==
    IF dv = 0 \/ acc.st.devices[dv].quarantined
    THEN acc
    ELSE Emit(acc, TickSample(acc.st, dv, IsAttack(acc.st.environment, dr), dr))

\* "for (const id of selected)" for the ids from position i on
RECURSIVE TickLoop(_, _, _, _)
TickLoop(acc, selected, draws, i) ==
    IF i > Len(selected) THEN acc
    ELSE TickLoop(TickDevice(acc, DeviceIndex(acc.st, selected[i]), draws[i]),
                  selected, draws, i + 1)

\* intervalMs as startSimulator is given it; 0 stands for a missing value
IntervalInputs == {0, 500}

\* setInterval: the id of the timer it creates
NewTimerId(active) == 1 + Cardinality(active)

\* what direct callers of processTelemetry pass: features and trueLabel
\* ("" is a missing label)
DirectInputs ==
    { <<[packetsPerSec |-> 200, failedAuth |-> 5, bytesOut |-> 25000], "Normal">>,
      <<[packetsPerSec |-> 900, failedAuth |-> 60, bytesOut |-> 90000], "">> }

\* the environments the control operations of the modular backend set
\* (attack type and intensity; drift level)
SimAttackInputs == { <<"none", 0>>, <<"ddos", 100>>, <<"port_scan", 50>> }
SimDriftInputs == {0, 100}
\* the ids quarantine and unquarantine are given; 9 is the id of no device
SimIdInputs == {1, 9}

(***************************************************************************)
(* The modular backend's operations.                                       *)
(***************************************************************************)
CreateDevice ==
    /\ backend = "modular"
    /\ UNCHANGED backend
    /\ Len(store.devices) < MaxDevices
    /\ store' = createDevice(store)
    /\ UNCHANGED <<timer, intervals, out>>
    /\ UNCHANGED srvVars
    /\ UNCHANGED selection

\* setAttack(type, intensity) of the modular backend
setAttack(type, intensity) ==
    /\ backend = "modular"
    /\ UNCHANGED backend
    /\ store' = [store EXCEPT !.environment.attackType = type,
                              !.environment.attackLevel = clamp(intensity, 0, 100)]
    /\ UNCHANGED <<timer, intervals, out>>
    /\ UNCHANGED srvVars
    /\ UNCHANGED selection

\* setDrift(level) of the modular backend
setDrift(level) ==
    /\ backend = "modular"
    /\ UNCHANGED backend
    /\ store' = [store EXCEPT !.environment.driftLevel = clamp(level, 0, 100)]
    /\ UNCHANGED <<timer, intervals, out>>
    /\ UNCHANGED srvVars
    /\ UNCHANGED selection

\* quarantine(id) / unquarantine(id) of the modular backend
SetQuarantined(id, flag) ==
    /\ backend = "modular"
    /\ UNCHANGED backend
    /\ store' = [store EXCEPT !.devices =
                    [i \in DOMAIN @ |-> IF @[i].id = id
                                        THEN [@[i] EXCEPT !.quarantined = flag]
                                        ELSE @[i]]]
    /\ UNCHANGED <<timer, intervals, out>>
    /\ UNCHANGED srvVars
    /\ UNCHANGED selection

quarantine(id) == SetQuarantined(id, TRUE)
unquarantine(id) == SetQuarantined(id, FALSE)

\* startSimulator without the test of line 135
startSimulatorUnguarded(intervalMs) ==
    /\ backend = "modular"
    /\ UNCHANGED backend
    /\ LET id == NewTimerId(intervals)
       IN  /\ store' = [store EXCEPT !.environment.simulatorRunning = TRUE]
           /\ timer' = id
           /\ intervals' = intervals \cup
                 { [id |-> id,
                    intervalMs |-> IF intervalMs = 0 THEN 800 ELSE intervalMs] }
    /\ UNCHANGED out
    /\ UNCHANGED srvVars
    /\ UNCHANGED selection

\* startSimulator that does not set environment.simulatorRunning
startSimulatorUnflagged(intervalMs) ==
    /\ backend = "modular"
    /\ UNCHANGED backend
    /\ IF timer # 0
       THEN UNCHANGED <<store, timer, intervals>>
       ELSE LET id == NewTimerId(intervals)
            IN  /\ store' = store
                /\ timer' = id
                /\ intervals' = intervals \cup
                      { [id |-> id,
                         intervalMs |-> IF intervalMs = 0 THEN 800 ELSE intervalMs] }
    /\ UNCHANGED out
    /\ UNCHANGED srvVars
    /\ UNCHANGED selection


\* startSimulator({ intervalMs = 800 } = {}, onOut)
startSimulator(intervalMs) ==
    /\ backend = "modular"
    /\ UNCHANGED backend
    /\ IF timer # 0
       THEN UNCHANGED <<store, timer, intervals>>
       ELSE LET id == NewTimerId(intervals)
            IN  /\ store' = [store EXCEPT !.environment.simulatorRunning = TRUE]
                /\ timer' = id
                /\ intervals' = intervals \cup
                      { [id |-> id,
                         intervalMs |-> IF intervalMs = 0 THEN 800 ELSE intervalMs] }
    /\ UNCHANGED out
    /\ UNCHANGED srvVars
    /\ UNCHANGED selection

\* stopSimulator without the clearInterval call
stopSimulatorLeavingInterval ==
    /\ backend = "modular"
    /\ UNCHANGED backend
    /\ IF timer = 0
       THEN UNCHANGED <<store, timer, intervals>>
       ELSE /\ intervals' = intervals
            /\ timer' = 0
            /\ store' = [store EXCEPT !.environment.simulatorRunning = FALSE]
    /\ UNCHANGED out
    /\ UNCHANGED srvVars
    /\ UNCHANGED selection

stopSimulator ==
    /\ backend = "modular"
    /\ UNCHANGED backend
    /\ IF timer = 0
       THEN UNCHANGED <<store, timer, intervals>>
       ELSE /\ intervals' = { t \in intervals : t.id # timer }
            /\ timer' = 0
            /\ store' = [store EXCEPT !.environment.simulatorRunning = FALSE]
    /\ UNCHANGED out
    /\ UNCHANGED srvVars
    /\ UNCHANGED selection

\* the setInterval callback of startSimulator, fired by an active timer
\* what the callback leaves: the store, and what went to onOut
TickLeaves(r) ==
    /\ store' = r.st
    /\ out' = r.out

TickWithinSeeding(limit, drawSets) ==
    /\ backend = "modular"
    /\ UNCHANGED backend
    /\ intervals # {}
    /\ store.stats.totalEvents < limit
    /\ LET deviceIds == { store.devices[i].id : i \in DOMAIN store.devices }
       IN  IF deviceIds = {}
           THEN /\ out' = << >>
                /\ store' = createDevice(store)
           ELSE \E selected \in Selections(deviceIds,
                                           SelectCount(store.environment,
                                                       Cardinality(deviceIds))) :
                \E draws \in drawSets :
                    TickLeaves(TickLoop([st |-> store, out |-> << >>],
                                        selected, draws, 1))
    /\ UNCHANGED <<timer, intervals>>
    /\ UNCHANGED srvVars
    /\ UNCHANGED selection


\* the interval callback, for at most limit events in all and the draws of
\* drawSets
TickWithin(limit, drawSets) ==
    /\ backend = "modular"
    /\ UNCHANGED backend
    /\ intervals # {}
    /\ store.stats.totalEvents < limit
    /\ LET deviceIds == { store.devices[i].id : i \in DOMAIN store.devices }
       IN  IF deviceIds = {}
           THEN /\ out' = << >>
                /\ UNCHANGED store
           ELSE \E selected \in Selections(deviceIds,
                                           SelectCount(store.environment,
                                                       Cardinality(deviceIds))) :
                \E draws \in drawSets :
                    TickLeaves(TickLoop([st |-> store, out |-> << >>],
                                        selected, draws, 1))
    /\ UNCHANGED <<timer, intervals>>
    /\ UNCHANGED srvVars
    /\ UNCHANGED selection

Tick == TickWithin(MaxEvents, SimTickDraws)

\* a direct call of the exported processTelemetry
\* a direct call of processTelemetry, for at most limit events in all and the
\* arguments of inputs
ProcessTelemetryWithin(limit, inputs) ==
    /\ backend = "modular"
    /\ UNCHANGED backend
    /\ store.stats.totalEvents < limit
    /\ \E dv \in 0..Len(store.devices), in \in inputs :
          store' = processTelemetry(store, dv, in[1], in[2]).st
    /\ UNCHANGED <<timer, intervals, out>>
    /\ UNCHANGED srvVars
    /\ UNCHANGED selection

ProcessTelemetryCall == ProcessTelemetryWithin(MaxEvents, DirectInputs)

(***************************************************************************)
(* server.js (the single-file backend, listed in README.md)                *)
(*                                                                         *)
(* Units used only here: packets and failedAuth in 1/10000, bytesOut in    *)
(* 1/100, scores and thresholds in 1/12000000 (so that the three score     *)
(* terms /400, /10 and /12000 are exact), device driftScore in hundredths. *)
(***************************************************************************)
\* clampList(list, 200) of telemetry, alerts and the time series
SrvListMax == 200

\* clampList keeping the last maxLen elements of the list
clampListKeepingLast(list, maxLen) ==
    IF Len(list) > maxLen THEN SubSeq(list, Len(list) - maxLen + 1, Len(list)) ELSE list

\* clampList that cuts nothing
clampListKeepingAll(list, maxLen) == list


\* clampList(list, maxLen): list.splice(maxLen) keeps the first maxLen elements
clampList(list, maxLen) ==
    IF Len(list) > maxLen THEN SubSeq(list, 1, maxLen) ELSE list

\* broadcast(type, payload) for the messages of one step: a client whose
\* readyState is OPEN is sent them, any other client is passed over
Deliver(cs, msgs) ==
    { [c EXCEPT !.received = IF c.readyState = "OPEN" THEN msgs ELSE << >>] :
        c \in cs }


\* res.json({ ok: true, ... }) of the routes; a step that answers no request
\* (a tick of the interval) sends no response
Ok == [sent |-> TRUE, ok |-> TRUE]
NoResponse == [sent |-> FALSE, ok |-> FALSE]

InitialEnvironment ==
    [simulatorRunning |-> FALSE, attackType |-> "none", attackLevel |-> 0, driftLevel |-> 0]

InitialStats ==
    [ totalEvents |-> 0, TP |-> 0, FP |-> 0, TN |-> 0, FN |-> 0,
      precision |-> FracZero, recall |-> FracZero, f1 |-> FracZero, fpRate |-> FracZero ]

InitialGlobalModel == [round |-> 1, accuracy |-> 920000]

InitialTimeseries == [t |-> << >>, f1 |-> << >>, globalAccuracy |-> << >>]

\* recalcMetrics() on stats
recalcMetrics(s) ==
    LET total == s.TP + s.FP + s.TN + s.FN
        precision == IF s.TP + s.FP = 0 THEN FracZero ELSE Frac(s.TP, s.TP + s.FP)
        recall == IF s.TP + s.FN = 0 THEN FracZero ELSE Frac(s.TP, s.TP + s.FN)
        f1 == IF FracAdd(precision, recall) = FracZero THEN FracZero
              ELSE FracDiv(FracMul(<<2, 1>>, FracMul(precision, recall)),
                           FracAdd(precision, recall))
        negatives == s.TN + s.FP
        fpRate == IF negatives = 0 THEN FracZero ELSE Frac(s.FP, negatives)
    IN  [s EXCEPT !.totalEvents = total, !.precision = precision,
                  !.recall = recall, !.f1 = f1, !.fpRate = fpRate]

\* pushTimeseriesPoint() at time t
pushTimeseriesPoint(ts, t, st, gm) ==
    [ t              |-> clampList(Append(ts.t, t), SrvListMax),
      f1             |-> clampList(Append(ts.f1, st.f1), SrvListMax),
      globalAccuracy |-> clampList(Append(ts.globalAccuracy, gm.accuracy), SrvListMax) ]

\* seedDevices(): the three devices it creates (uuids become 1, 2, 3)
SeededDevices ==
    << [id |-> 1, driftScore |-> 0, localAccuracy |-> 930000, quarantined |-> FALSE],
       [id |-> 2, driftScore |-> 0, localAccuracy |-> 910000, quarantined |-> FALSE],
       [id |-> 3, driftScore |-> 0, localAccuracy |-> 900000, quarantined |-> FALSE] >>

seedDevices(devs) == IF Len(devs) > 0 THEN devs ELSE SeededDevices

\* One device's Math.random() draws in a tick, in hundredths, in code order:
\* packets noise, failedAuth noise, bytesOut noise, true label, attack extras
\* (first, second), score noise, localAccuracy nudge
QuietNormal ==
    [packets |-> 50, failed |-> 50, bytes |-> 50, label |-> 95,
     extra1 |-> 50, extra2 |-> 50, noise |-> 50, nudge |-> 50]
LoudNormal ==
    [packets |-> 99, failed |-> 99, bytes |-> 99, label |-> 95,
     extra1 |-> 50, extra2 |-> 50, noise |-> 99, nudge |-> 50]
LoudAttack ==
    [packets |-> 99, failed |-> 99, bytes |-> 99, label |-> 2,
     extra1 |-> 20, extra2 |-> 80, noise |-> 99, nudge |-> 90]
QuietAttack ==
    [packets |-> 50, failed |-> 0, bytes |-> 50, label |-> 2,
     extra1 |-> 0, extra2 |-> 0, noise |-> 50, nudge |-> 50]

\* the draws of one tick, one record per device of the registry
SrvTickDraws ==
    { <<QuietNormal, QuietNormal, QuietNormal>>,
      <<LoudNormal, QuietAttack, LoudAttack>> }

\* step 2 of generateTelemetryTick: the true label
SrvTrueLabel(env, dr) ==
    IF env.attackType = "none"
    THEN IF dr.label < 5 THEN "Attack" ELSE "Normal"
    ELSE LET pAttack == Min(9000, 1500 + 55 * env.attackLevel)
         IN  IF dr.label * 100 < pAttack THEN "Attack" ELSE "Normal"

\* step 5 of generateTelemetryTick: thresholdBase - 0.1 * drift
SrvThreshold(drift) == (5500 - 10 * drift) * 1200

\* steps 1 to 8 of generateTelemetryTick for one device that is not
\* quarantined: the event, the device, the counters and the alert
SrvSample(dev, env, st, dr, ts) ==
    LET drift == env.driftLevel
        level == env.attackLevel
        atkType == env.attackType
        trueLabel == SrvTrueLabel(env, dr)
        attacked == trueLabel = "Attack" /\ atkType # "none"
        \* the noise around the expected value, then the attack's distortion
        packetsDev ==
            (dr.packets - 50) * 8000
            + (IF ~attacked THEN 0
               ELSE IF atkType = "port_scan" THEN level * 100000 + dr.extra1 * 20000
               ELSE IF atkType = "bruteforce" THEN 0
               ELSE IF atkType = "ddos" THEN level * 150000 + dr.extra1 * 30000
               ELSE IF atkType = "exfiltration" THEN 0
               ELSE level * 60000)
        failedDev ==
            dr.failed * 300
            + (IF ~attacked THEN 0
               ELSE IF atkType = "port_scan" THEN 0
               ELSE IF atkType = "bruteforce" THEN level * 2000 + dr.extra1 * 500
               ELSE IF atkType = "ddos" THEN 0
               ELSE IF atkType = "exfiltration" THEN 0
               ELSE level * 800)
        bytesDev ==
            (dr.bytes - 50) * 4000
            + (IF ~attacked THEN 0
               ELSE IF atkType = "port_scan" THEN 0
               ELSE IF atkType = "bruteforce" THEN 0
               ELSE IF atkType = "ddos" THEN level * 8000 + dr.extra2 * 3000
               ELSE IF atkType = "exfiltration" THEN level * 20000 + dr.extra1 * 5000
               ELSE level * 8000)
        packets == 2000000 + drift * 8000 + packetsDev
        failedAuth == 10000 + drift * 150 + failedDev
        bytesOut == 1000000 + drift * 4000 + bytesDev
        \* |x - expected| / 400, / 10, / 12000, plus (Math.random() - 0.5) * 0.15
        raw == 3 * Abs(packetsDev) + 120 * Abs(failedDev) + 10 * Abs(bytesDev)
               + (dr.noise - 50) * 18000
        score == IF raw < 0 THEN 0 ELSE IF raw > 12000000 THEN 12000000 ELSE raw
        threshold == SrvThreshold(drift)
        isAttack == score > threshold
        predicted == IF isAttack THEN "Attack" ELSE "Normal"
        st1 == [st EXCEPT
                  !.TP = @ + (IF trueLabel = "Attack" /\ predicted = "Attack" THEN 1 ELSE 0),
                  !.FN = @ + (IF trueLabel = "Attack" /\ predicted = "Normal" THEN 1 ELSE 0),
                  !.FP = @ + (IF trueLabel = "Normal" /\ predicted = "Attack" THEN 1 ELSE 0),
                  !.TN = @ + (IF trueLabel = "Normal" /\ predicted = "Normal" THEN 1 ELSE 0)]
        dev1 == [dev EXCEPT
                  !.driftScore = drift,
                  !.localAccuracy =
                      Max(700000, Min(990000, @ + (dr.nudge - 50) * 100))]
        features == [ packetsPerSec |-> Max(0, RoundDiv(packets, 10000)),
                      failedAuth    |-> Max(0, RoundDiv(failedAuth, 10000)),
                      bytesOut      |-> Max(0, RoundDiv(bytesOut, 100)) ]
        event == [ deviceId  |-> dev.id,
                   ts        |-> ts,
                   features  |-> features,
                   score     |-> score,
                   threshold |-> threshold,
                   predicted |-> predicted,
                   trueLabel |-> trueLabel ]
        alert == [ deviceId   |-> dev.id,
                   ts         |-> ts,
                   severity   |-> IF score > threshold + 3000000 THEN "high" ELSE "medium",
                   type       |-> "anomaly",
                   score      |-> score,
                   driftScore |-> dev1.driftScore ]
    IN  [ dev |-> dev1, stats |-> recalcMetrics(st1), event |-> event,
          isAttack |-> isAttack, alert |-> alert ]

\* devices.forEach(...) of generateTelemetryTick from position i on
RECURSIVE SrvForEach(_, _, _, _, _)
SrvForEach(acc, env, draws, ts, i) ==
    IF i > Len(acc.devices) THEN acc
    ELSE
    LET dev == acc.devices[i]
    IN  IF dev.quarantined THEN SrvForEach(acc, env, draws, ts, i + 1)
        ELSE
        LET r == SrvSample(dev, env, acc.stats, draws[i], ts)
            sent == Append(acc.broadcasts, [type |-> "telemetry_event", event |-> r.event,
                                            overview |-> r.stats])
        IN  SrvForEach(
                [ devices    |-> [acc.devices EXCEPT ![i] = r.dev],
                  stats      |-> r.stats,
                  telemetry  |-> clampList(<<r.event>> \o acc.telemetry, SrvListMax),
                  alerts     |-> IF r.isAttack
                                 THEN clampList(<<r.alert>> \o acc.alerts, SrvListMax)
                                 ELSE acc.alerts,
                  broadcasts |-> IF r.isAttack
                                 THEN Append(sent, [type |-> "alert_event",
                                                    alert |-> r.alert])
                                 ELSE sent ],
                env, draws, ts, i + 1)

\* step 9 of generateTelemetryTick: the global model after the tick
SrvNudgeAccuracy(gm, env) ==
    LET targetAcc == 900000 + (IF env.attackType = "none" THEN 50000 ELSE -50000)
        acc == gm.accuracy + ((targetAcc - gm.accuracy) * 2) \div 100
    IN  [gm EXCEPT !.accuracy = Min(990000, Max(700000, acc))]

(***************************************************************************)
(* server.js: the operations.                                              *)
(***************************************************************************)
\* what Number(x) gives for a request field x: NaN or a number (hundredths)
NaN == [nan |-> TRUE, val |-> 0]
Num(v) == [nan |-> FALSE, val |-> v]

\* Number(x) || 0
NumberOrZero(x) == IF x.nan \/ x.val = 0 THEN 0 ELSE x.val

\* the bodies POST /api/sim/attack is given: type ("" when missing) and
\* Number(intensity)
SrvAttackInputs ==
    { <<"", NaN>>, <<"ddos", Num(250)>>, <<"foo", Num(100)>> }
\* Number(level) of the bodies POST /api/sim/drift is given
SrvDriftInputs == { Num(50), Num(250) }
\* the :id of the quarantine routes; 9 is the id of no device
SrvIdInputs == {1, 9}
\* intervalMs of POST /api/sim/start; 0 stands for a missing value
SrvIntervalInputs == {0, 300}

snapshotPayload ==
    [ type |-> "snapshot", devices |-> devices, environment |-> environment,
      stats |-> stats, globalModel |-> globalModel,
      alerts |-> SubSeq(alerts, 1, Min(80, Len(alerts))),
      telemetry |-> SubSeq(telemetry, 1, Min(80, Len(telemetry))) ]

\* broadcastSimStatus() when the environment is env
simStatus(env) == [type |-> "sim_status", environment |-> env]

\* startSimulator(intervalMs), called by POST /api/sim/start with intervalMs || 700
PostSimStart(intervalMs) ==
    /\ backend = "server"
    /\ response' = Ok
    /\ IF simTimer # 0
       THEN /\ broadcasts' = << >>
            /\ UNCHANGED <<devices, environment, simTimer, srvIntervals>>
       ELSE LET id == NewTimerId(srvIntervals)
                env == [environment EXCEPT !.simulatorRunning = TRUE]
                devs == seedDevices(devices)
            IN  /\ devices' = devs
                /\ environment' = env
                /\ simTimer' = id
                /\ srvIntervals' = srvIntervals \cup
                      { [id |-> id,
                         intervalMs |-> IF intervalMs = 0 THEN 700 ELSE intervalMs] }
                /\ broadcasts' = << simStatus(env),
                                    [snapshotPayload EXCEPT !.devices = devs,
                                                            !.environment = env] >>
    /\ UNCHANGED <<alerts, telemetry, stats, globalModel, timeseries, clock>>
    /\ UNCHANGED <<backend, store, timer, intervals, out, selection>>
    /\ clients' = Deliver(clients, broadcasts')

\* stopSimulator(), called by POST /api/sim/stop
PostSimStop ==
    /\ backend = "server"
    /\ response' = Ok
    /\ srvIntervals' = { t \in srvIntervals : t.id # simTimer }
    /\ simTimer' = 0
    /\ environment' = [environment EXCEPT !.simulatorRunning = FALSE]
    /\ broadcasts' = << simStatus(environment') >>
    /\ UNCHANGED <<devices, alerts, telemetry, stats, globalModel, timeseries, clock>>
    /\ UNCHANGED <<backend, store, timer, intervals, out, selection>>
    /\ clients' = Deliver(clients, broadcasts')

\* resetSimulator without its stopSimulator() call
PostSimResetKeepingTimer ==
    /\ backend = "server"
    /\ response' = Ok
    /\ devices' = << >>
    /\ alerts' = << >>
    /\ telemetry' = << >>
    /\ environment' = [InitialEnvironment EXCEPT
                          !.simulatorRunning = environment.simulatorRunning]
    /\ stats' = InitialStats
    /\ globalModel' = InitialGlobalModel
    /\ timeseries' = InitialTimeseries
    /\ broadcasts' =
          << [ type |-> "snapshot", devices |-> << >>,
               environment |-> environment', stats |-> InitialStats,
               globalModel |-> InitialGlobalModel,
               alerts |-> << >>, telemetry |-> << >> ] >>
    /\ UNCHANGED <<simTimer, srvIntervals, clock>>
    /\ UNCHANGED <<backend, store, timer, intervals, out, selection>>
    /\ clients' = Deliver(clients, broadcasts')

\* resetSimulator(), called by POST /api/sim/reset
PostSimReset ==
    /\ backend = "server"
    /\ response' = Ok
    \* stopSimulator()
    /\ srvIntervals' = { t \in srvIntervals : t.id # simTimer }
    /\ simTimer' = 0
    /\ devices' = << >>
    /\ alerts' = << >>
    /\ telemetry' = << >>
    /\ environment' = InitialEnvironment
    /\ stats' = InitialStats
    /\ globalModel' = InitialGlobalModel
    /\ timeseries' = InitialTimeseries
    /\ broadcasts' =
          << simStatus([environment EXCEPT !.simulatorRunning = FALSE]),
             [ type |-> "snapshot", devices |-> << >>,
               environment |-> InitialEnvironment, stats |-> InitialStats,
               globalModel |-> InitialGlobalModel,
               alerts |-> << >>, telemetry |-> << >> ] >>
    /\ UNCHANGED clock
    /\ UNCHANGED <<backend, store, timer, intervals, out, selection>>
    /\ clients' = Deliver(clients, broadcasts')

SrvSetQuarantinedOrNotFound(id, flag) ==
    /\ backend = "server"
    /\ response' = IF \E i \in DOMAIN devices : devices[i].id = id
                   THEN Ok ELSE [sent |-> TRUE, ok |-> FALSE]
    /\ devices' = [i \in DOMAIN devices |->
                      IF devices[i].id = id
                      THEN [devices[i] EXCEPT !.quarantined = flag]
                      ELSE devices[i]]
    /\ broadcasts' =
          IF \E i \in DOMAIN devices : devices[i].id = id
          THEN << [type |-> "device_updated",
                   device |-> devices'[CHOOSE i \in DOMAIN devices :
                                           devices[i].id = id]] >>
          ELSE << >>
    /\ UNCHANGED <<alerts, telemetry, environment, stats, globalModel, timeseries,
                   simTimer, srvIntervals, clock>>
    /\ UNCHANGED <<backend, store, timer, intervals, out, selection>>
    /\ clients' = Deliver(clients, broadcasts')


\* POST /api/devices/:id/quarantine and /unquarantine
SrvSetQuarantined(id, flag) ==
    /\ backend = "server"
    /\ response' = Ok
    /\ devices' = [i \in DOMAIN devices |->
                      IF devices[i].id = id
                      THEN [devices[i] EXCEPT !.quarantined = flag]
                      ELSE devices[i]]
    /\ broadcasts' =
          IF \E i \in DOMAIN devices : devices[i].id = id
          THEN << [type |-> "device_updated",
                   device |-> devices'[CHOOSE i \in DOMAIN devices :
                                           devices[i].id = id]] >>
          ELSE << >>
    /\ UNCHANGED <<alerts, telemetry, environment, stats, globalModel, timeseries,
                   simTimer, srvIntervals, clock>>
    /\ UNCHANGED <<backend, store, timer, intervals, out, selection>>
    /\ clients' = Deliver(clients, broadcasts')

PostQuarantine(id) == SrvSetQuarantined(id, TRUE)
PostUnquarantine(id) == SrvSetQuarantined(id, FALSE)

\* POST /api/sim/attack
PostSimAttack(type, intensity) ==
    /\ backend = "server"
    /\ response' = Ok
    /\ environment' = [environment EXCEPT
                          !.attackType = IF type = "" THEN "none" ELSE type,
                          !.attackLevel = NumberOrZero(intensity)]
    /\ broadcasts' = << simStatus(environment') >>
    /\ UNCHANGED <<devices, alerts, telemetry, stats, globalModel, timeseries,
                   simTimer, srvIntervals, clock>>
    /\ UNCHANGED <<backend, store, timer, intervals, out, selection>>
    /\ clients' = Deliver(clients, broadcasts')

\* POST /api/sim/drift
PostSimDrift(level) ==
    /\ backend = "server"
    /\ response' = Ok
    /\ environment' = [environment EXCEPT !.driftLevel = NumberOrZero(level)]
    /\ broadcasts' = << simStatus(environment') >>
    /\ UNCHANGED <<devices, alerts, telemetry, stats, globalModel, timeseries,
                   simTimer, srvIntervals, clock>>
    /\ UNCHANGED <<backend, store, timer, intervals, out, selection>>
    /\ clients' = Deliver(clients, broadcasts')

\* (Math.random() - 0.5) * 0.01 of POST /api/fl/round, in millionths
RoundNudges == {-4000, 3000}

\* POST /api/fl/round without the clamp of its third line
PostFlRoundUnclamped(limit, nudges) ==
    /\ backend = "server"
    /\ response' = Ok
    /\ clock < limit
    /\ \E nudge \in nudges :
          globalModel' =
              [ round    |-> globalModel.round + 1,
                accuracy |-> globalModel.accuracy + nudge ]
    /\ clock' = clock + 1
    /\ timeseries' = pushTimeseriesPoint(timeseries, clock', stats, globalModel')
    /\ broadcasts' = << [type |-> "model_update", globalModel |-> globalModel'] >>
    /\ UNCHANGED <<devices, alerts, telemetry, environment, stats, simTimer, srvIntervals>>
    /\ UNCHANGED <<backend, store, timer, intervals, out, selection>>
    /\ clients' = Deliver(clients, broadcasts')

\* POST /api/fl/round, for clock readings up to limit and the draws of nudges
PostFlRoundWithin(limit, nudges) ==
    /\ backend = "server"
    /\ response' = Ok
    /\ clock < limit
    /\ \E nudge \in nudges :
          globalModel' =
              [ round    |-> globalModel.round + 1,
                accuracy |-> Min(990000, Max(700000, globalModel.accuracy + nudge)) ]
    /\ clock' = clock + 1
    /\ timeseries' = pushTimeseriesPoint(timeseries, clock', stats, globalModel')
    /\ broadcasts' = << [type |-> "model_update", globalModel |-> globalModel'] >>
    /\ UNCHANGED <<devices, alerts, telemetry, environment, stats, simTimer, srvIntervals>>
    /\ UNCHANGED <<backend, store, timer, intervals, out, selection>>
    /\ clients' = Deliver(clients, broadcasts')

PostFlRound == PostFlRoundWithin(MaxClock, RoundNudges)

\* generateTelemetryTick(), fired by an active timer, for clock readings up to
\* limit and the draws of drawSets
SrvTickWithin(limit, drawSets) ==
    /\ backend = "server"
    /\ response' = NoResponse
    /\ srvIntervals # {}
    /\ clock < limit
    /\ IF ~environment.simulatorRunning
       THEN /\ broadcasts' = << >>
            /\ UNCHANGED <<devices, alerts, telemetry, stats, globalModel,
                           timeseries, clock>>
       ELSE \E draws \in drawSets :
            LET r == SrvForEach([ devices |-> seedDevices(devices), stats |-> stats,
                                  telemetry |-> telemetry, alerts |-> alerts,
                                  broadcasts |-> << >> ],
                                environment, draws, clock + 1, 1)
                gm == SrvNudgeAccuracy(globalModel, environment)
            IN  /\ clock' = clock + 1
                /\ devices' = r.devices
                /\ stats' = r.stats
                /\ telemetry' = r.telemetry
                /\ alerts' = r.alerts
                /\ globalModel' = gm
                /\ timeseries' = pushTimeseriesPoint(timeseries, clock', r.stats, gm)
                /\ broadcasts' = Append(r.broadcasts,
                                        [type |-> "model_update", globalModel |-> gm])
    /\ UNCHANGED <<environment, simTimer, srvIntervals>>
    /\ UNCHANGED <<backend, store, timer, intervals, out, selection>>
    /\ clients' = Deliver(clients, broadcasts')

GenerateTelemetryTick == SrvTickWithin(MaxClock, SrvTickDraws)

(***************************************************************************)
(* The specification.                                                      *)
(***************************************************************************)
(***************************************************************************)
(* Observers of server.js, and a sink of simulator.js that throws.         *)
(***************************************************************************)
MaxClients == 2
ClientIds == 1..MaxClients

\* wss.on("connection"): the new client is sent a snapshot
WsConnect ==
    /\ backend = "server"
    /\ \E id \in ClientIds :
          /\ \A c \in clients : c.id # id
          /\ clients' = Deliver(clients, << >>) \cup
                { [id |-> id, readyState |-> "OPEN",
                   received |-> << snapshotPayload >>] }
    /\ broadcasts' = << >>
    /\ response' = NoResponse
    /\ UNCHANGED <<devices, alerts, telemetry, environment, stats, globalModel,
                   timeseries, simTimer, srvIntervals, clock>>
    /\ UNCHANGED <<backend, store, timer, intervals, out, selection>>

\* a client starts closing: it stays in wss.clients with readyState CLOSING
WsClosing(id) ==
    /\ backend = "server"
    /\ \E c \in clients : c.id = id /\ c.readyState = "OPEN"
    /\ clients' = { [c EXCEPT !.readyState = IF c.id = id THEN "CLOSING" ELSE @,
                              !.received = << >>] : c \in clients }
    /\ broadcasts' = << >>
    /\ response' = NoResponse
    /\ UNCHANGED <<devices, alerts, telemetry, environment, stats, globalModel,
                   timeseries, simTimer, srvIntervals, clock>>
    /\ UNCHANGED <<backend, store, timer, intervals, out, selection>>

\* the connection of a client is closed: it leaves wss.clients
WsClosed(id) ==
    /\ backend = "server"
    /\ \E c \in clients : c.id = id
    /\ clients' = Deliver({ c \in clients : c.id # id }, << >>)
    /\ broadcasts' = << >>
    /\ response' = NoResponse
    /\ UNCHANGED <<devices, alerts, telemetry, environment, stats, globalModel,
                   timeseries, simTimer, srvIntervals, clock>>
    /\ UNCHANGED <<backend, store, timer, intervals, out, selection>>

\* "for (const id of selected)" when the k-th call of onOut throws: nothing
\* catches the exception, so the loop ends with that call
RECURSIVE TickLoopUntilThrow(_, _, _, _, _)
TickLoopUntilThrow(acc, selected, draws, i, k) ==
    IF i > Len(selected) \/ Len(acc.out) = k THEN acc
    ELSE TickLoopUntilThrow(
             TickDevice(acc, DeviceIndex(acc.st, selected[i]), draws[i]),
             selected, draws, i + 1, k)

\* the interval callback for this selection and these draws when the k-th call
\* of onOut throws. The exception leaves the callback: a host that handles
\* uncaught exceptions goes on, any other host ends and none of its timers
\* fires again.
TickSinkThrowsOn(selected, draws, k) ==
    /\ backend = "modular"
    /\ UNCHANGED backend
    /\ intervals # {}
    /\ store.stats.totalEvents < MaxEvents
    /\ selected \in Selections({ store.devices[i].id : i \in DOMAIN store.devices },
                               SelectCount(store.environment, Len(store.devices)))
    /\ Len(TickLoopUntilThrow([st |-> store, out |-> << >>],
                              selected, draws, 1, k).out) = k
    /\ TickLeaves(TickLoopUntilThrow([st |-> store, out |-> << >>],
                                     selected, draws, 1, k))
    /\ timer' = timer
    /\ intervals' \in {intervals, {}}
    /\ UNCHANGED srvVars
    /\ UNCHANGED selection

TickSinkThrows ==
    \E selected \in Selections({ store.devices[i].id : i \in DOMAIN store.devices },
                               SelectCount(store.environment, Len(store.devices))) :
        \E draws \in SimTickDraws, k \in 1..3 :
            TickSinkThrowsOn(selected, draws, k)

\* the host of simulator.js has not ended
ProcessAlive == timer = 0 \/ intervals # {}


InitState(b) ==
    /\ backend = b
    /\ store = InitialStore
    /\ timer = 0
    /\ intervals = {}
    /\ out = << >>
    /\ selection = NoSelection
    /\ devices = << >>
    /\ alerts = << >>
    /\ telemetry = << >>
    /\ environment = InitialEnvironment
    /\ stats = InitialStats
    /\ globalModel = InitialGlobalModel
    /\ timeseries = InitialTimeseries
    /\ simTimer = 0
    /\ srvIntervals = {}
    /\ broadcasts = << >>
    /\ response = NoResponse
    /\ clients = {}
    /\ clock = 0

Init == \E b \in {"modular", "server"} : InitState(b)

Next ==
    \/ CreateDevice
    \/ \E a \in SimAttackInputs : setAttack(a[1], a[2])
    \/ \E level \in SimDriftInputs : setDrift(level)
    \/ \E id \in SimIdInputs : quarantine(id)
    \/ \E id \in SimIdInputs : unquarantine(id)
    \/ \E intervalMs \in IntervalInputs : startSimulator(intervalMs)
    \/ stopSimulator
    \/ Tick
    \/ ProcessTelemetryCall
    \/ \E intervalMs \in SrvIntervalInputs : PostSimStart(intervalMs)
    \/ PostSimStop
    \/ PostSimReset
    \/ \E id \in SrvIdInputs : PostQuarantine(id)
    \/ \E id \in SrvIdInputs : PostUnquarantine(id)
    \/ \E a \in SrvAttackInputs : PostSimAttack(a[1], a[2])
    \/ \E level \in SrvDriftInputs : PostSimDrift(level)
    \/ PostFlRound
    \/ GenerateTelemetryTick

Spec == Init /\ [][Next]_vars

(***************************************************************************)
(* Properties.                                                             *)
(***************************************************************************)
\* the program state of each backend (without the record of the last sink calls)
simProgram == <<store, timer, intervals>>
srvProgram == <<devices, alerts, telemetry, environment, stats, globalModel,
                timeseries, simTimer, srvIntervals>>

IsPrefix(a, b) == Len(a) <= Len(b) /\ a = SubSeq(b, 1, Len(a))

\* the entries of a newest-first log that carry the device id
EntriesOf(log, id) == SelectSeq(log, LAMBDA e : e.deviceId = id)

\* the k newest entries of a newest-first log
Newest(log, k) == SubSeq(log, 1, Min(Max(k, 0), Len(log)))

\* how many entries of the sequence have the true label attack (or not) and the
\* predicted label attack (or not)
CountClass(events, trueAttack, predictedAttack) ==
    Cardinality({ i \in DOMAIN events :
                    /\ (events[i].trueLabel = "Attack") = trueAttack
                    /\ (events[i].predicted = "Attack") = predictedAttack })

\* the telemetry_event messages among the calls of broadcast
TelemetryMessages(msgs) == SelectSeq(msgs, LAMBDA m : m.type = "telemetry_event")

\* the last step of server.js was a tick that ran the pipeline
SrvTickRan ==
    /\ backend = "server"
    /\ broadcasts # << >>
    /\ broadcasts[Len(broadcasts)].type = "model_update"
    /\ broadcasts[1].type = "telemetry_event"

\* C1: while a device is quarantined, no step (tick or direct processTelemetry
\* call) appends an event or an alert of that device to the logs or to its
\* window, and the events that the step's counter changes stand for are all
\* events of other devices.
C1_QuarantinedDeviceIsSilent ==
    [][ /\ backend = "modular" =>
            \A i \in DOMAIN store.devices :
                store.devices[i].quarantined =>
                    LET id == store.devices[i].id
                        k == store'.stats.totalEvents - store.stats.totalEvents
                    IN  /\ store'.devices[i].window = store.devices[i].window
                        /\ store'.devices[i].driftScore = store.devices[i].driftScore
                        /\ IsPrefix(EntriesOf(store'.telemetry, id),
                                    EntriesOf(store.telemetry, id))
                        /\ IsPrefix(EntriesOf(store'.alerts, id),
                                    EntriesOf(store.alerts, id))
                        /\ EntriesOf(Newest(store'.telemetry, k), id) = << >>
                        /\ out' # out =>
                              \A j \in DOMAIN out' : out'[j].evt.deviceId # id
        /\ backend = "server" =>
            \A i \in DOMAIN devices :
                devices[i].quarantined =>
                    LET id == devices[i].id
                        k == stats'.totalEvents - stats.totalEvents
                    IN  /\ IsPrefix(EntriesOf(telemetry', id), EntriesOf(telemetry, id))
                        /\ IsPrefix(EntriesOf(alerts', id), EntriesOf(alerts, id))
                        /\ EntriesOf(Newest(telemetry', k), id) = << >>
                        /\ \A j \in DOMAIN broadcasts' :
                              broadcasts'[j].type = "telemetry_event"
                                  => broadcasts'[j].event.deviceId # id
                        /\ i \in DOMAIN devices' =>
                              devices'[i].driftScore = devices[i].driftScore
      ]_vars

\* C1 witness: server.js has just run a tick that produced events of other
\* devices while device 1 was quarantined and had no event in the log.
C1_Witness ==
    /\ SrvTickRan
    /\ devices[1].quarantined
    /\ EntriesOf(telemetry, 1) = << >>
    /\ EntriesOf(telemetry, 2) # << >>

\* C2: the four counters add up to totalEvents; between resets none of them
\* decreases, and a step raises each counter by the number of the events it
\* processed that fall in the counter's class (true label x predicted label).
C2_CountersAddUp ==
    /\ [](backend = "modular" =>
            store.stats.TP + store.stats.FP + store.stats.TN + store.stats.FN
                = store.stats.totalEvents)
    /\ [](backend = "server" =>
            stats.TP + stats.FP + stats.TN + stats.FN = stats.totalEvents)
    /\ [][ /\ backend = "modular" =>
               LET s == store.stats
                   t == store'.stats
                   new == Newest(store'.telemetry, t.totalEvents - s.totalEvents)
               IN  /\ Len(new) = t.totalEvents - s.totalEvents
                   /\ t.TP = s.TP + CountClass(new, TRUE, TRUE)
                   /\ t.FP = s.FP + CountClass(new, FALSE, TRUE)
                   /\ t.TN = s.TN + CountClass(new, FALSE, FALSE)
                   /\ t.FN = s.FN + CountClass(new, TRUE, FALSE)
           /\ (backend = "server" /\ ~PostSimReset) =>
               LET new == Newest(telemetry', stats'.totalEvents - stats.totalEvents)
               IN  /\ Len(new) = stats'.totalEvents - stats.totalEvents
                   /\ stats'.TP = stats.TP + CountClass(new, TRUE, TRUE)
                   /\ stats'.FP = stats.FP + CountClass(new, FALSE, TRUE)
                   /\ stats'.TN = stats.TN + CountClass(new, FALSE, FALSE)
                   /\ stats'.FN = stats.FN + CountClass(new, TRUE, FALSE)
         ]_vars

\* C2 witness: the modular backend has counted a true positive and a false
\* positive, and the time is past the first event.
C2_Witness ==
    /\ backend = "modular"
    /\ store.stats.TP >= 1
    /\ store.stats.FP >= 1
    /\ store.stats.totalEvents >= 2

\* the documented defaults of server.js
SrvDefaults ==
    /\ devices = << >>
    /\ alerts = << >>
    /\ telemetry = << >>
    /\ stats.totalEvents = 0
    /\ stats.TP = 0 /\ stats.FP = 0 /\ stats.TN = 0 /\ stats.FN = 0
    /\ stats.precision = FracZero /\ stats.recall = FracZero
    /\ stats.f1 = FracZero /\ stats.fpRate = FracZero
    /\ environment = [simulatorRunning |-> FALSE, attackType |-> "none",
                      attackLevel |-> 0, driftLevel |-> 0]
    /\ globalModel.round = 1
    /\ globalModel.accuracy = 920000
    /\ \A f \in DOMAIN timeseries : timeseries[f] = << >>
    /\ simTimer = 0
    /\ srvIntervals = {}

\* C3: every resetSimulator() of server.js, whatever preceded it, leaves the
\* registry and both logs empty, the counters, totalEvents and the derived
\* metrics 0, the environment and the global model at their defaults, the time
\* series empty and no timer active.
C3_ResetRestoresDefaults == [][PostSimReset => SrvDefaults']_vars

\* the last request of server.js was a reset
LastWasReset ==
    /\ backend = "server"
    /\ Len(broadcasts) = 2
    /\ broadcasts[2].type = "snapshot"
    /\ broadcasts[2].devices = << >>

\* C3 witness: a reset has just been served after ticks or rounds took place.
C3_Witness == LastWasReset /\ clock > 0 /\ SrvDefaults

\* C4: start while the scheduler runs and stop while it is stopped change
\* nothing in either backend (same timer, same interval whatever intervalMs is
\* passed), and at most one timer is ever active.
C4_StartStopIdempotent ==
    /\ [](Cardinality(intervals) <= 1 /\ Cardinality(srvIntervals) <= 1)
    /\ [][ /\ (timer # 0 /\ \E ms \in IntervalInputs : startSimulator(ms))
              => UNCHANGED simProgram
           /\ (timer = 0 /\ stopSimulator) => UNCHANGED simProgram
           /\ (simTimer # 0 /\ \E ms \in SrvIntervalInputs : PostSimStart(ms))
              => UNCHANGED srvProgram
           /\ (simTimer = 0 /\ PostSimStop) => UNCHANGED srvProgram
         ]_vars

\* C4 witness: the modular scheduler runs with the interval 500 of its first
\* start, with a device registered.
C4_Witness ==
    /\ backend = "modular"
    /\ timer # 0
    /\ intervals = { [id |-> timer, intervalMs |-> 500] }
    /\ store.environment.simulatorRunning
    /\ store.devices # << >>

\* the data of the modular engine that only the pipeline writes
simEngine ==
    <<store.telemetry, store.alerts, store.stats, store.globalModel,
      [i \in DOMAIN store.devices |->
          <<store.devices[i].window, store.devices[i].driftScore,
            store.devices[i].baseline, store.devices[i].localAccuracy>>]>>

\* the same for server.js
srvEngine ==
    <<telemetry, alerts, stats, globalModel, timeseries,
      [i \in DOMAIN devices |-> <<devices[i].driftScore, devices[i].localAccuracy>>]>>

\* C5: stop leaves no timer behind in whatever state it is called; while no
\* timer is active the logs, counters, windows, drift scores and the global
\* model change only by an explicit operation (a direct processTelemetry call,
\* a reset, a federated round, the registration of devices); and no step leaves
\* an event half-applied: the counters, the telemetry log and the windows
\* account for the same events.
C5_StopIsSafe ==
    /\ [](backend = "modular" =>
            /\ store.stats.totalEvents = Len(store.telemetry)
            /\ store.stats.totalEvents =
                  SumSeq([i \in DOMAIN store.devices |-> Len(store.devices[i].window)])
            /\ timer = 0 <=> intervals = {})
    /\ [](backend = "server" =>
            /\ stats.totalEvents = Len(telemetry)
            /\ simTimer = 0 <=> srvIntervals = {})
    /\ [][ /\ stopSimulator => (timer' = 0 /\ intervals' = {})
           /\ PostSimStop => (simTimer' = 0 /\ srvIntervals' = {})
           /\ (backend = "modular" /\ timer = 0
                 /\ ~ProcessTelemetryCall /\ ~CreateDevice)
              => simEngine' = simEngine
           /\ (backend = "server" /\ simTimer = 0 /\ ~PostSimReset /\ ~PostFlRound
                 /\ ~(\E ms \in SrvIntervalInputs : PostSimStart(ms)))
              => srvEngine' = srvEngine
         ]_vars

\* C5 witness: the modular scheduler was started, ticked and produced events,
\* and has been stopped.
C5_Witness ==
    /\ backend = "modular"
    /\ timer = 0
    /\ intervals = {}
    /\ ~store.environment.simulatorRunning
    /\ out # << >>
    /\ store.stats.totalEvents >= 1

\* the events a server.js tick has just broadcast
TickEvents(msgs) ==
    [i \in DOMAIN TelemetryMessages(msgs) |-> TelemetryMessages(msgs)[i].event]

\* C6 as stated: in a tick run while attackType is none, of either backend,
\* every produced event is labelled Normal and TP and FN do not grow.
C6_NoneForcesNormal ==
    [][ /\ (Tick /\ store.environment.attackType = "none") =>
              /\ \A j \in DOMAIN out' : out'[j].evt.trueLabel = "Normal"
              /\ store'.stats.TP = store.stats.TP
              /\ store'.stats.FN = store.stats.FN
        /\ (GenerateTelemetryTick /\ environment.attackType = "none") =>
              /\ \A j \in DOMAIN TickEvents(broadcasts') :
                    TickEvents(broadcasts')[j].trueLabel = "Normal"
              /\ stats'.TP = stats.TP
              /\ stats'.FN = stats.FN
      ]_vars

\* C6 amended: in a tick of simulator.js run while attackType is none, every
\* produced event is labelled Normal, whatever attackLevel and driftLevel are,
\* and TP and FN do not grow (the prediction may still be Attack).
C6_NoneForcesNormalInSimulator ==
    [][ (Tick /\ store.environment.attackType = "none") =>
            /\ \A j \in DOMAIN out' : out'[j].evt.trueLabel = "Normal"
            /\ store'.stats.TP = store.stats.TP
            /\ store'.stats.FN = store.stats.FN
            /\ \A i \in DOMAIN store'.telemetry :
                  i <= store'.stats.totalEvents - store.stats.totalEvents
                     => store'.telemetry[i].trueLabel = "Normal"
      ]_vars

\* C6 witness: a tick of simulator.js under attackType none and a positive
\* drift level has produced a Normal event that was predicted Attack.
C6_Witness ==
    /\ backend = "modular"
    /\ store.environment.attackType = "none"
    /\ store.environment.driftLevel > 0
    /\ out # << >>
    /\ out[1].evt.trueLabel = "Normal"
    /\ out[1].evt.predicted = "Attack"
    /\ store.stats.TP = 0 /\ store.stats.FN = 0 /\ store.stats.FP >= 1

\* the device ids of a sequence of events are pairwise distinct
DistinctDevices(events) ==
    \A i, j \in DOMAIN events : i # j => events[i].deviceId # events[j].deviceId

\* C7 as stated: a tick of a running scheduler with a non-quarantined device
\* produces exactly 1 event when attackType is not ddos, never more than 3, and
\* never two for the same device.
C7_OneOrUpToThree ==
    [][ /\ (/\ Tick
            /\ timer # 0
            /\ \E i \in DOMAIN store.devices : ~store.devices[i].quarantined) =>
              LET k == store'.stats.totalEvents - store.stats.totalEvents
              IN  /\ store.environment.attackType # "ddos" => k = 1
                  /\ k <= 3
                  /\ DistinctDevices(Newest(store'.telemetry, k))
        /\ (/\ GenerateTelemetryTick
            /\ environment.simulatorRunning
            /\ \E i \in DOMAIN devices : ~devices[i].quarantined) =>
              LET k == stats'.totalEvents - stats.totalEvents
              IN  /\ environment.attackType # "ddos" => k = 1
                  /\ k <= 3
                  /\ DistinctDevices(Newest(telemetry', k))
      ]_vars

\* C7 amended: a tick of simulator.js picks 1 registered device (min(3, number
\* of devices) pairwise distinct ones under ddos), quarantined ones included,
\* and runs the pipeline once for each picked device that is not quarantined:
\* it produces at most 1 event when attackType is not ddos, never more than 3,
\* never two for one device, and exactly the picked number when no device is
\* quarantined. A tick of server.js produces one event for every device that
\* is not quarantined, whatever the attackType.
C7_PickedDevicesRunOnce ==
    [][ /\ (Tick /\ store.devices # << >>) =>
              LET k == store'.stats.totalEvents - store.stats.totalEvents
                  n == Len(store.devices)
                  count == SelectCount(store.environment, n)
                  new == Newest(store'.telemetry, k)
              IN  /\ k = Len(out')
                  /\ k <= count
                  /\ count <= 3
                  /\ store.environment.attackType # "ddos" => k <= 1
                  /\ DistinctDevices(new)
                  /\ \A j \in DOMAIN new :
                        \E i \in DOMAIN store.devices :
                           /\ store.devices[i].id = new[j].deviceId
                           /\ ~store.devices[i].quarantined
                           /\ Len(store'.devices[i].window)
                                 = Len(store.devices[i].window) + 1
                  /\ (\A i \in DOMAIN store.devices : ~store.devices[i].quarantined)
                        => k = count
        /\ (GenerateTelemetryTick /\ environment.simulatorRunning) =>
              LET k == stats'.totalEvents - stats.totalEvents
                  new == Newest(telemetry', k)
              IN  /\ k = Len(TickEvents(broadcasts'))
                  /\ DistinctDevices(new)
                  /\ { new[j].deviceId : j \in DOMAIN new }
                        = { devices'[i].id : i \in { x \in DOMAIN devices' :
                                                       ~devices'[x].quarantined } }
      ]_vars

\* C7 witness: a ddos tick of simulator.js has run the pipeline for three
\* devices.
C7_Witness ==
    /\ backend = "modular"
    /\ store.environment.attackType = "ddos"
    /\ Len(out) = 3
    /\ DistinctDevices([j \in DOMAIN out |-> out[j].evt])
    /\ store.stats.totalEvents = 3

\* C8: after any sequence of setAttack and setDrift calls, with whatever
\* inputs, attackLevel and driftLevel are within [0,1] (hundredths here).
C8_LevelsWithinUnitInterval ==
    /\ backend = "modular" =>
          /\ store.environment.attackLevel \in 0..100
          /\ store.environment.driftLevel \in 0..100
    /\ backend = "server" =>
          /\ environment.attackLevel \in 0..100
          /\ environment.driftLevel \in 0..100

AttackTypes == {"none", "port_scan", "bruteforce", "ddos", "exfiltration", "generic"}

\* C9: after any sequence of setAttack calls, attackType is one of the six
\* documented values; an unknown type is never stored as given.
C9_AttackTypeIsDocumented ==
    /\ backend = "modular" => store.environment.attackType \in AttackTypes
    /\ backend = "server" => environment.attackType \in AttackTypes

\* drift levels to compare thresholds at, in hundredths; some lie outside [0,1]
ProbeLevels == {-100, 0, 30, 100, 300}

\* C10 as stated: in both backends the threshold is monotone non-decreasing in
\* driftLevel over the levels reached, lies in [0.45, 0.85], and so does the
\* threshold field of every recorded event.
C10_ThresholdRisesWithDrift ==
    /\ backend = "modular" =>
          LET L == {0, store.environment.driftLevel}
          IN  /\ \A d1, d2 \in L :
                    d1 <= d2 => DetectionThreshold(d1) <= DetectionThreshold(d2)
              /\ \A d \in L : DetectionThreshold(d) \in 4500..8500
              /\ \A i \in DOMAIN store.telemetry :
                    store.telemetry[i].threshold \in 450..850
    /\ backend = "server" =>
          LET L == {0, environment.driftLevel}
          IN  /\ \A d1, d2 \in L : d1 <= d2 => SrvThreshold(d1) <= SrvThreshold(d2)
              /\ \A d \in L : SrvThreshold(d) \in 5400000..10200000
              /\ \A i \in DOMAIN telemetry :
                    telemetry[i].threshold \in 5400000..10200000

\* C10 amended: in processTelemetry (simulator.js) the threshold is monotone
\* non-decreasing in driftLevel and lies in [0.45, 0.85] for every level, and
\* every event simulator.js records carries the threshold of the level it was
\* processed at, within [0.45, 0.85]. In generateTelemetryTick (server.js) the
\* threshold is 0.55 - 0.1 * driftLevel: monotone non-increasing in driftLevel
\* and not clamped, and every event of a tick carries it.
C10_ThresholdBySource ==
    /\ [](backend = "modular" =>
            LET L == ProbeLevels \cup {store.environment.driftLevel}
            IN  /\ \A d1, d2 \in L :
                      d1 <= d2 => DetectionThreshold(d1) <= DetectionThreshold(d2)
                /\ \A d \in L : DetectionThreshold(d) \in 4500..8500
                /\ \A i \in DOMAIN store.telemetry :
                      store.telemetry[i].threshold \in 450..850)
    /\ [](backend = "server" =>
            LET L == ProbeLevels \cup {environment.driftLevel}
            IN  \A d1, d2 \in L : d1 <= d2 => SrvThreshold(d1) >= SrvThreshold(d2))
    /\ [][ /\ backend = "modular" =>
               LET new == Newest(store'.telemetry,
                                 store'.stats.totalEvents - store.stats.totalEvents)
               IN  \A j \in DOMAIN new :
                      new[j].threshold
                         = ToFixed3(DetectionThreshold(store.environment.driftLevel))
           /\ (backend = "server" /\ ~PostSimReset) =>
               LET new == Newest(telemetry', stats'.totalEvents - stats.totalEvents)
               IN  \A j \in DOMAIN new :
                      new[j].threshold = SrvThreshold(environment.driftLevel)
         ]_vars

\* C10 witness: simulator.js has recorded an event at drift level 0 (threshold
\* 0.55) and, later, one at drift level 1 (threshold 0.70).
C10_Witness ==
    /\ backend = "modular"
    /\ Len(store.telemetry) = 2
    /\ store.telemetry[2].threshold = 550
    /\ store.telemetry[1].threshold = 700

\* a ratio <<numerator, denominator>> within [0,1]
InUnitInterval(f) == f[1] >= 0 /\ f[2] > 0 /\ f[1] <= f[2]

\* the four derived metrics of the stats record s are within [0,1], are 0 when
\* their denominator is 0, and are the functions of s's own counters
\* (f1 = 2 * TP / (2 * TP + FP + FN) whenever TP > 0)
MetricsFollowCounters(s) ==
    /\ InUnitInterval(s.precision) /\ InUnitInterval(s.recall)
    /\ InUnitInterval(s.f1) /\ InUnitInterval(s.fpRate)
    /\ s.TP + s.FP = 0 => s.precision = FracZero
    /\ s.TP + s.FN = 0 => s.recall = FracZero
    /\ FracAdd(s.precision, s.recall) = FracZero => s.f1 = FracZero
    /\ s.FP + s.TN = 0 => s.fpRate = FracZero
    /\ s.TP + s.FP > 0 => s.precision[1] * (s.TP + s.FP) = s.TP * s.precision[2]
    /\ s.TP + s.FN > 0 => s.recall[1] * (s.TP + s.FN) = s.TP * s.recall[2]
    /\ s.FP + s.TN > 0 => s.fpRate[1] * (s.FP + s.TN) = s.FP * s.fpRate[2]
    /\ s.TP > 0 => s.f1[1] * (2 * s.TP + s.FP + s.FN) = 2 * s.TP * s.f1[2]
    /\ s.TP = 0 => s.f1 = FracZero

\* C11: in every reachable state of either backend precision, recall, f1 and
\* fpRate lie in [0,1], are 0 when their denominator is 0, and equal the
\* functions of the current TP, FP, TN, FN.
C11_MetricsFollowCounters ==
    /\ backend = "modular" => MetricsFollowCounters(store.stats)
    /\ backend = "server" => MetricsFollowCounters(stats)

\* C11 witness: the modular backend has counted one true positive and one false
\* positive and no negative: precision 1/2, recall 1, f1 2/3, fpRate 1.
C11_Witness ==
    /\ backend = "modular"
    /\ store.stats.TP = 1 /\ store.stats.FP = 1
    /\ store.stats.precision = <<1, 2>>
    /\ store.stats.recall = <<1, 1>>
    /\ store.stats.f1 = <<2, 3>>
    /\ store.stats.fpRate = <<1, 1>>


\* ---------------------------------------------------------------------------
\* Long runs: one registered device (modular backend) and one vector of draws
\* per tick, so that every history reaches its cap
\* ---------------------------------------------------------------------------

HistoryEvents == 2520
HistoryTicks == 203

\* the draws of one tick of a long run: the first packet draw moves through
\* seven values, so that consecutive events differ
HistoryDraws ==
    { <<[Loud EXCEPT !.n1 = 30 + (store.stats.totalEvents % 7)], Loud, Loud>> }
SrvHistoryDraws == { <<LoudNormal, QuietAttack, LoudAttack>> }

\* the environment of a long run of the modular backend moves through three
\* phases of 25 events: calm, a port scan at half intensity with half drift,
\* full drift
HistoryPhase == (store.stats.totalEvents \div 25) % 3
HistoryAttack == IF HistoryPhase = 1 THEN <<"port_scan", 50>> ELSE <<"none", 0>>
HistoryDrift == HistoryPhase * 50

\* the environment is due a change before the next tick
HistoryAttackDue ==
    /\ store.stats.totalEvents % 25 = 5
    /\ store.environment.attackType # HistoryAttack[1]
HistoryDriftDue ==
    /\ store.stats.totalEvents % 25 = 15
    /\ store.environment.driftLevel # HistoryDrift

HistoryNext ==
    \/ store.devices = << >> /\ CreateDevice
    \/ startSimulator(500)
    \/ HistoryAttackDue /\ setAttack(HistoryAttack[1], HistoryAttack[2])
    \/ HistoryDriftDue /\ setDrift(HistoryDrift)
    \/ ~HistoryAttackDue /\ ~HistoryDriftDue /\ TickWithin(HistoryEvents, HistoryDraws)
    \/ PostSimStart(300)
    \/ SrvTickWithin(HistoryTicks, SrvHistoryDraws)

HistorySpec == Init /\ [][HistoryNext]_vars

\* C12: no history outgrows its cap: store.js keeps at most 600 telemetry
\* events, 400 alerts and 250 points in each time series; server.js keeps at
\* most 200 telemetry events, 200 alerts and 200 points in each time series
C12_HistoriesAreBounded ==
    /\ backend = "modular" =>
          /\ Len(store.telemetry) <= 600
          /\ Len(store.alerts) <= 400
          /\ \A k \in DOMAIN store.stats.timeseries :
                Len(store.stats.timeseries[k]) <= 250
    /\ backend = "server" =>
          /\ Len(telemetry) <= 200
          /\ Len(alerts) <= 200
          /\ \A k \in DOMAIN timeseries : Len(timeseries[k]) <= 200

\* every history of server.js is full and ticks have run since it filled
C12_Witness ==
    /\ backend = "server"
    /\ clock > 200
    /\ stats.totalEvents > 600
    /\ Len(telemetry) = 200
    /\ Len(alerts) = 200
    /\ \A k \in DOMAIN timeseries : Len(timeseries[k]) = 200


\* ---------------------------------------------------------------------------
\* Runs that take one device of the modular backend past its baseline (60
\* quiet samples, then samples that shift the window), and server.js under a
\* drift level of 0.60
\* ---------------------------------------------------------------------------

AlertEvents == 63

\* the arguments of the direct calls: the quiet sample until the baseline is
\* set, then a quiet one, a shifted benign one, one scoring 0.575, one scoring
\* 0.70 and a loud one
QuietSample ==
    <<[packetsPerSec |-> 200, failedAuth |-> 5, bytesOut |-> 25000], "Normal">>
AlertProbes ==
    { QuietSample,
      <<[packetsPerSec |-> 216, failedAuth |-> 5, bytesOut |-> 27000], "Normal">>,
      <<[packetsPerSec |-> 292, failedAuth |-> 5, bytesOut |-> 25000], "Attack">>,
      <<[packetsPerSec |-> 312, failedAuth |-> 5, bytesOut |-> 25000], "Attack">>,
      <<[packetsPerSec |-> 900, failedAuth |-> 60, bytesOut |-> 90000], "Attack">> }
AlertInputs == IF store.stats.totalEvents < 60 THEN {QuietSample} ELSE AlertProbes

AlertNext ==
    \/ store.devices = << >> /\ CreateDevice
    \/ startSimulator(500)
    \/ TickWithin(AlertEvents, { <<Quiet, Quiet, Quiet>> })
    \/ ProcessTelemetryWithin(AlertEvents, AlertInputs)
    \/ PostSimStart(300)
    \/ PostSimDrift(Num(60))
    \/ GenerateTelemetryTick

AlertSpec == Init /\ [][AlertNext]_vars

\* the alerts a step of the modular backend added for the device
AlertsAdded(before, after, id) ==
    EntriesOf(Newest(after.alerts, Len(after.alerts) - Len(before.alerts)), id)

\* the alert policy over the events a step of the modular backend added: one
\* alert for an event that is predicted Attack or whose device has a drift
\* score of 0.55 or more, none otherwise; anomaly when predicted Attack, drift
\* otherwise; the alert carries the device's drift score
SimAlertPolicy(before, after) ==
    \A i \in 1..(after.stats.totalEvents - before.stats.totalEvents) :
        LET e == after.telemetry[i]
            d == after.devices[DeviceIndex(after, e.deviceId)]
            fired == AlertsAdded(before, after, e.deviceId)
        IN  /\ Len(fired) = IF e.predicted = "Attack" \/ d.driftScore >= 5500
                            THEN 1 ELSE 0
            /\ \A k \in DOMAIN fired :
                  /\ fired[k].type = IF e.predicted = "Attack" THEN "anomaly"
                                     ELSE "drift"
                  /\ fired[k].driftScore = ToFixed3(d.driftScore)

\* the device of server.js with this id
SrvDeviceOf(devs, id) == devs[CHOOSE i \in DOMAIN devs : devs[i].id = id]

\* message j of a tick of server.js is followed by the alert of its event
AlertFollows(msgs, j) ==
    /\ j < Len(msgs)
    /\ msgs[j + 1].type = "alert_event"
    /\ msgs[j + 1].alert.deviceId = msgs[j].event.deviceId

\* the alert policy over the events a tick of server.js broadcast, with drift
\* alerts (byDrift) or without
SrvAlertPolicy(msgs, devs, before, after, byDrift) ==
    /\ \A j \in DOMAIN msgs :
          msgs[j].type = "telemetry_event" =>
             LET e == msgs[j].event
                 d == SrvDeviceOf(devs, e.deviceId)
             IN  /\ AlertFollows(msgs, j) <=>
                       \/ e.predicted = "Attack"
                       \/ byDrift /\ d.driftScore >= 55
                 /\ AlertFollows(msgs, j) =>
                       /\ msgs[j + 1].alert.type =
                             IF e.predicted = "Attack" THEN "anomaly" ELSE "drift"
                       /\ msgs[j + 1].alert.driftScore = d.driftScore
                       /\ \E k \in DOMAIN after : after[k] = msgs[j + 1].alert
    /\ Len(after) - Len(before) =
          Cardinality({ j \in DOMAIN msgs : msgs[j].type = "alert_event" })

\* C13 as stated: in either backend an alert is created for an event exactly
\* when the event is predicted Attack or the drift score is at least 0.55; its
\* type is anomaly when predicted Attack and drift otherwise; it carries the
\* drift score.
C13_AlertIffAttackOrDrift ==
    [][ /\ backend = "modular" => SimAlertPolicy(store, store')
        /\ backend = "server" =>
              SrvAlertPolicy(broadcasts', devices', alerts, alerts', TRUE)
      ]_vars

\* C13 amended: maybeCreateAlert as called by processTelemetry creates an alert
\* exactly when the event is predicted Attack or the device's drift score is at
\* least 0.55 (anomaly when predicted Attack, drift otherwise); the alert step
\* of server.js creates an alert exactly when the event is predicted Attack,
\* always of type anomaly; either alert carries the device's drift score.
C13_AlertPolicyBySource ==
    [][ /\ backend = "modular" => SimAlertPolicy(store, store')
        /\ backend = "server" =>
              SrvAlertPolicy(broadcasts', devices', alerts, alerts', FALSE)
      ]_vars

\* C13 witness: the newest event of the modular backend was predicted Normal
\* and its device's drift score of 0.55 or more raised an alert of type drift.
C13_Witness ==
    /\ backend = "modular"
    /\ store.telemetry # << >>
    /\ store.alerts # << >>
    /\ store.telemetry[1].predicted = "Normal"
    /\ store.alerts[1].type = "drift"
    /\ store.alerts[1].deviceId = store.telemetry[1].deviceId
    /\ store.alerts[1].driftScore >= 550
    /\ Len(store.alerts) < store.stats.totalEvents


\* the severity of an alert as a table of score, drift score and prediction:
\* drift makes an alert medium whatever the prediction (anyDrift) or only when
\* the event is not predicted Attack
SeverityTable(score, drift, predictedAttack, anyDrift) ==
    IF predictedAttack /\ score >= 8000 THEN "high"
    ELSE IF \/ predictedAttack /\ score >= 6000
            \/ (anyDrift \/ ~predictedAttack) /\ drift >= 5500
         THEN "medium"
    ELSE "low"

\* every alert a step of the modular backend added has the severity of the
\* table for its event's score, its device's drift score and the prediction
SimSeverityPolicy(before, after, anyDrift) ==
    \A i \in 1..(after.stats.totalEvents - before.stats.totalEvents) :
        LET e == after.telemetry[i]
            d == after.devices[DeviceIndex(after, e.deviceId)]
            fired == AlertsAdded(before, after, e.deviceId)
        IN  \A k \in DOMAIN fired :
                fired[k].severity =
                    SeverityTable(anomalyScore(e.features), d.driftScore,
                                  e.predicted = "Attack", anyDrift)

\* C14 as stated: an alert of maybeCreateAlert is high iff predicted Attack
\* with score >= 0.80; otherwise medium iff predicted Attack with score >= 0.60
\* or not predicted Attack with drift score >= 0.55; otherwise low, so that a
\* predicted-attack alert with score below 0.60 is low whatever the drift.
C14_SeverityAsStated ==
    [][ backend = "modular" => SimSeverityPolicy(store, store', FALSE) ]_vars

\* C14 amended: an alert of maybeCreateAlert is high iff predicted Attack with
\* score >= 0.80; otherwise medium iff predicted Attack with score >= 0.60 or
\* the drift score is >= 0.55, whatever the prediction; otherwise low.
C14_SeverityWithDrift ==
    [][ backend = "modular" => SimSeverityPolicy(store, store', TRUE) ]_vars

\* C14 witness: a predicted-attack alert with score below 0.60 is medium
\* because its device's drift score is 0.55 or more.
C14_Witness ==
    /\ backend = "modular"
    /\ store.telemetry # << >>
    /\ store.alerts # << >>
    /\ store.telemetry[1].predicted = "Attack"
    /\ store.alerts[1].deviceId = store.telemetry[1].deviceId
    /\ store.alerts[1].type = "anomaly"
    /\ store.alerts[1].score < 600
    /\ store.alerts[1].score = store.telemetry[1].score
    /\ store.alerts[1].driftScore >= 550
    /\ store.alerts[1].severity = "medium"


\* no device of server.js has this id
SrvUnknownId(id) == \A i \in DOMAIN devices : devices[i].id # id

\* C15: POST /api/devices/:id/quarantine and /unquarantine with an id that is
\* not in the registry change no device and no other state of the program,
\* create no device, broadcast no device_updated message and answer ok: true.
C15_UnknownIdIsNoOp ==
    [][ \A id \in SrvIdInputs :
          (SrvUnknownId(id) /\ (PostQuarantine(id) \/ PostUnquarantine(id))) =>
              /\ devices' = devices
              /\ srvProgram' = srvProgram
              /\ clock' = clock
              /\ \A j \in DOMAIN broadcasts' : broadcasts'[j].type # "device_updated"
              /\ broadcasts' = << >>
              /\ response' = Ok
      ]_vars

\* C15 witness: with devices registered and the simulator stopped, the last
\* request was answered ok: true and broadcast nothing, which only a
\* quarantine or unquarantine of an unknown id does.
C15_Witness ==
    /\ backend = "server"
    /\ devices # << >>
    /\ \E id \in SrvIdInputs : SrvUnknownId(id)
    /\ simTimer = 0
    /\ response = Ok
    /\ broadcasts = << >>


CountersInclude(prev, cur, e) ==
    /\ cur.totalEvents = prev.totalEvents + 1
    /\ cur.TP = prev.TP + (IF e.trueLabel = "Attack" /\ e.predicted = "Attack" THEN 1 ELSE 0)
    /\ cur.FN = prev.FN + (IF e.trueLabel = "Attack" /\ e.predicted = "Normal" THEN 1 ELSE 0)
    /\ cur.FP = prev.FP + (IF e.trueLabel = "Normal" /\ e.predicted = "Attack" THEN 1 ELSE 0)
    /\ cur.TN = prev.TN + (IF e.trueLabel = "Normal" /\ e.predicted = "Normal" THEN 1 ELSE 0)

\* every delivery of a tick carries statistics that count its event on top of
\* the statistics of the delivery before it (of the state before the tick for
\* the first), and the last ones are those the tick leaves
DeliveriesCounted(before, deliveries, after) ==
    /\ \A j \in DOMAIN deliveries :
          CountersInclude(IF j = 1 THEN before ELSE deliveries[j - 1].overview,
                          deliveries[j].overview, deliveries[j].evt)
    /\ deliveries # << >> => deliveries[Len(deliveries)].overview = after

\* the telemetry_event messages of a tick of server.js as deliveries
SrvDeliveries(msgs) ==
    [j \in DOMAIN TelemetryMessages(msgs) |->
        [evt |-> TelemetryMessages(msgs)[j].event,
         overview |-> TelemetryMessages(msgs)[j].overview]]

\* C17: when a telemetry_event is handed to the sink (onOut of simulator.js,
\* broadcast of server.js), the statistics an overview returns at that moment
\* already count the event: against the state before the event was processed,
\* the one counter chosen by its true and predicted labels is higher by 1 and
\* so is totalEvents.
C17_DeliveredEventsAreCounted ==
    [][ /\ Tick => DeliveriesCounted(store.stats, out', store'.stats)
        /\ GenerateTelemetryTick =>
              DeliveriesCounted(stats, SrvDeliveries(broadcasts'), stats')
      ]_vars

\* C17 witness: a tick of simulator.js has handed two events to the sink, the
\* second counted on top of the first.
C17_Witness ==
    /\ backend = "modular"
    /\ Len(out) = 2
    /\ out[1].overview.totalEvents = 1
    /\ out[2].overview.totalEvents = 2
    /\ store.stats.totalEvents = 2
    /\ out[2].overview.TP + out[2].overview.FP + out[2].overview.TN
          + out[2].overview.FN = 2


\* ---------------------------------------------------------------------------
\* Runs of server.js with enough federated rounds for the accuracy to reach
\* either end of its range: the draws of a run all go one way
\* ---------------------------------------------------------------------------

RoundLimit == 50

\* (Math.random() - 0.5) * 0.01 of the rounds of a long run, in millionths:
\* upward once the accuracy is above its initial value, downward once below
RoundRunNudges ==
    IF globalModel.accuracy > InitialGlobalModel.accuracy THEN {4900}
    ELSE IF globalModel.accuracy < InitialGlobalModel.accuracy THEN {-4900}
    ELSE {-4900, 4900}

AdvanceRound == PostFlRoundWithin(RoundLimit, RoundRunNudges)

RoundNext ==
    \/ PostSimStart(300)
    \/ GenerateTelemetryTick
    \/ PostSimReset
    \/ AdvanceRound

RoundSpec == Init /\ [][RoundNext]_vars

\* C18: in server.js globalModel.round is at least 1 and globalModel.accuracy
\* stays within [0.70, 0.99]; POST /api/fl/round raises round by exactly 1, a
\* tick leaves round as it is, and round changes in no other way than by a
\* round or by reset, which alone brings it back to 1.
C18_GlobalModelStaysInRange ==
    /\ [](backend = "server" =>
             /\ globalModel.round >= 1
             /\ globalModel.accuracy >= 700000
             /\ globalModel.accuracy <= 990000)
    /\ [][AdvanceRound => globalModel'.round = globalModel.round + 1]_vars
    /\ [][GenerateTelemetryTick => globalModel'.round = globalModel.round]_vars
    /\ [][ globalModel'.round # globalModel.round =>
              \/ AdvanceRound
              \/ PostSimReset /\ globalModel'.round = 1
         ]_vars

\* C18 witness: after fifteen rounds or more the accuracy stands at 0.99,
\* where the clamp of POST /api/fl/round has held it.
C18_Witness ==
    /\ backend = "server"
    /\ globalModel.round >= 16
    /\ globalModel.accuracy = 990000


\* ---------------------------------------------------------------------------
\* Runs with observers that connect and close (server.js) and with a sink
\* that may throw (simulator.js)
\* ---------------------------------------------------------------------------

SinkNext ==
    \/ ProcessAlive /\ CreateDevice
    \/ ProcessAlive /\ setAttack("ddos", 100)
    \/ ProcessAlive /\ startSimulator(500)
    \/ Tick
    \/ TickSinkThrows
    \/ PostSimStart(300)
    \/ GenerateTelemetryTick
    \/ WsConnect
    \/ \E id \in ClientIds : WsClosing(id)
    \/ \E id \in ClientIds : WsClosed(id)

SinkSpec == Init /\ [][SinkNext]_vars

\* C19: delivery never blocks or fails the pipeline. A client of server.js
\* that is not OPEN is sent nothing by a step and nothing of an earlier step
\* later; when a call of the sink of simulator.js fails, the store is what the
\* whole loop over the selected devices leaves and the interval goes on.
C19_DeliveryNeverFailsPipeline ==
    /\ [][ backend = "server" =>
              \A c \in clients' :
                 /\ c.received \in { << >>, broadcasts', << snapshotPayload >> }
                 /\ (\E b \in clients : b.id = c.id /\ b.readyState # "OPEN")
                       => c.received = << >>
         ]_vars
    /\ [][ \A selected \in Selections(
                  { store.devices[i].id : i \in DOMAIN store.devices },
                  SelectCount(store.environment, Len(store.devices))) :
              \A draws \in SimTickDraws, k \in 1..3 :
                 TickSinkThrowsOn(selected, draws, k) =>
                    /\ store' = TickLoop([st |-> store, out |-> << >>],
                                         selected, draws, 1).st
                    /\ timer' = timer
                    /\ intervals' = intervals
         ]_vars


\* ---------------------------------------------------------------------------
\* Runs that score the same feature vectors under different drift levels
\* (direct calls of processTelemetry) and under different noise draws
\* (server.js)
\* ---------------------------------------------------------------------------

ScoreEvents == 3

\* the draws of one tick: expected features for every device, with the noise
\* term of the score at its middle or near its top
NoisyNormal == [QuietNormal EXCEPT !.noise = 99]
ScoreDraws ==
    { <<QuietNormal, NoisyNormal, QuietNormal>>,
      <<LoudNormal, QuietAttack, LoudAttack>> }

ScoreNext ==
    \/ store.devices = << >> /\ CreateDevice
    \/ \E level \in SimDriftInputs : setDrift(level)
    \/ ProcessTelemetryWithin(ScoreEvents, AlertProbes)
    \/ PostSimStart(300)
    \/ \E level \in SrvDriftInputs : PostSimDrift(level)
    \/ SrvTickWithin(MaxClock, ScoreDraws)

ScoreSpec == Init /\ [][ScoreNext]_vars

\* events of a log with equal feature vectors have equal scores
SameFeaturesSameScore(log) ==
    \A i, j \in DOMAIN log :
        log[i].features = log[j].features => log[i].score = log[j].score

\* C20 as stated: in either backend the score of an event is a function of its
\* feature vector alone (events with the same features have the same score,
\* in whatever states they were scored) and lies within [0,1].
C20_ScoreIsFunctionOfFeatures ==
    /\ backend = "modular" =>
          /\ SameFeaturesSameScore(store.telemetry)
          /\ \A i \in DOMAIN store.telemetry :
                store.telemetry[i].score >= 0 /\ store.telemetry[i].score <= 1000
    /\ backend = "server" =>
          /\ SameFeaturesSameScore(telemetry)
          /\ \A i \in DOMAIN telemetry :
                telemetry[i].score >= 0 /\ telemetry[i].score <= 12000000

\* C20 amended: the score of anomalyScore (detector.js) is a function of the
\* feature vector alone: events with the same features have the same score,
\* whatever the store, the environment and the devices were when they were
\* scored, and it lies within [0,1]. The score of server.js lies within [0,1]
\* (it is not a function of the features: it adds a random term).
C20_ScoreBySource ==
    /\ backend = "modular" =>
          /\ SameFeaturesSameScore(store.telemetry)
          /\ \A i \in DOMAIN store.telemetry :
                /\ store.telemetry[i].score >= 0
                /\ store.telemetry[i].score <= 1000
                /\ store.telemetry[i].score =
                      ToFixed3(anomalyScore(store.telemetry[i].features))
    /\ backend = "server" =>
          \A i \in DOMAIN telemetry :
              telemetry[i].score >= 0 /\ telemetry[i].score <= 12000000

\* C20 witness: the log of the modular backend holds two events with the same
\* features, scored under different drift levels (their thresholds differ),
\* with the same score strictly between 0 and 1.
C20_Witness ==
    /\ backend = "modular"
    /\ \E i, j \in DOMAIN store.telemetry :
          /\ i # j
          /\ store.telemetry[i].features = store.telemetry[j].features
          /\ store.telemetry[i].threshold # store.telemetry[j].threshold
          /\ store.telemetry[i].score = store.telemetry[j].score
          /\ store.telemetry[i].score > 0
          /\ store.telemetry[i].score < 1000


\* ---------------------------------------------------------------------------
\* Runs of simulator.js under ddos at full intensity, with draws that take the
\* benign base sample to either end of its range
\* ---------------------------------------------------------------------------

SynthEvents == 3

\* randn() far below the mean (the base sample is clamped to 20 packets and
\* 1000 bytes) and far above it (1400 packets, 400000 bytes, and an attack
\* term that reaches the ceilings of the ddos sample)
LowBase == [u |-> 0, n1 |-> -60, n2 |-> -10, n3 |-> -60, a1 |-> 0, a2 |-> 0]
HighBase == [u |-> 0, n1 |-> 400, n2 |-> 10, n3 |-> 500, a1 |-> 90, a2 |-> -200]
SynthDraws ==
    { <<LowBase, Quiet, HighBase>>, <<Quiet, LowBase, Loud>>,
      <<HighBase, Loud, LowBase>> }
SynthDriftInputs == {0, 50, 100}

SynthNext ==
    \/ CreateDevice
    \/ setAttack("ddos", 100)
    \/ \E level \in SynthDriftInputs : setDrift(level)
    \/ startSimulator(500)
    \/ TickWithin(SynthEvents, SynthDraws)

SynthSpec == Init /\ [][SynthNext]_vars

\* the events of the log that carry the true label Attack
AttackEvents(log) == { i \in DOMAIN log : log[i].trueLabel = "Attack" }

\* C21 as stated: under ddos at attackLevel 1.0 every attack-labelled sample has
\* packetsPerSec above the benign ceiling 1400 and bytesOut above the benign
\* ceiling 400000.
C21_DdosExceedsBenignCeilings ==
    \A i \in AttackEvents(store.telemetry) :
        /\ store.telemetry[i].features.packetsPerSec > 1400
        /\ store.telemetry[i].features.bytesOut > 400000

\* C21 amended: under ddos at attackLevel 1.0 every attack-labelled sample has
\* packetsPerSec within [2900, 8000], above the benign ceiling 1400, and
\* bytesOut within [225000, 1200000]: bytesOut is the base sample's plus at
\* least 224000 and can stay below the benign ceiling 400000.
C21_DdosVolumes ==
    \A i \in AttackEvents(store.telemetry) :
        /\ store.telemetry[i].features.packetsPerSec >= 2900
        /\ store.telemetry[i].features.packetsPerSec <= 8000
        /\ store.telemetry[i].features.bytesOut >= 225000
        /\ store.telemetry[i].features.bytesOut <= 1200000

\* C21 witness: the log holds a ddos sample built on the lowest base sample
\* (2900 packets, 225000 bytes) and one built on the highest (8000 packets,
\* 1200000 bytes).
C21_Witness ==
    /\ backend = "modular"
    /\ store.environment.attackType = "ddos"
    /\ store.environment.attackLevel = 100
    /\ \E i \in AttackEvents(store.telemetry) :
          /\ store.telemetry[i].features.packetsPerSec = 2900
          /\ store.telemetry[i].features.bytesOut = 225000
    /\ \E i \in AttackEvents(store.telemetry) :
          /\ store.telemetry[i].features.packetsPerSec = 8000
          /\ store.telemetry[i].features.bytesOut = 1200000


\* C22: a device whose window holds fewer than 30 events keeps its drift score
\* (0.05 from createDevice), and so does one whose window has not reached 60
\* events; from 60 events on the drift score is the one computed from the
\* current window and the baseline alone, within [0,1].
C22_DriftScoreFollowsWindow ==
    backend = "modular" =>
        \A i \in DOMAIN store.devices :
            LET d == store.devices[i]
            IN  /\ Len(d.window) < 30 => d.driftScore = InitialDriftScore
                /\ Len(d.window) < 60 =>
                      d.driftScore = InitialDriftScore /\ ~d.baseline.set
                /\ Len(d.window) >= 60 =>
                      /\ d.baseline.set
                      /\ d.driftScore = DriftAgainst(RecentStats(d.window), d.baseline)
                      /\ d.driftScore >= 0
                      /\ d.driftScore <= 10000

\* C22 witness: a device with more than 60 events in its window has a drift
\* score recomputed to a value strictly between 0 and 1 other than 0.05.
C22_Witness ==
    /\ backend = "modular"
    /\ \E i \in DOMAIN store.devices :
          /\ Len(store.devices[i].window) > 60
          /\ store.devices[i].driftScore > 0
          /\ store.devices[i].driftScore < 10000
          /\ store.devices[i].driftScore # InitialDriftScore


\* x || 1 written out for a baseline deviation
StoredStd(values) == IF std(values) = 0 THEN 1 ELSE std(values)

\* the baseline a window of events gives: the means and the deviations of
\* its three features, a deviation of 0 stored as 1
CapturedFrom(window, baseline) ==
    LET pk == [i \in DOMAIN window |-> window[i].features.packetsPerSec]
        fa == [i \in DOMAIN window |-> window[i].features.failedAuth]
        bo == [i \in DOMAIN window |-> window[i].features.bytesOut \div 100]
    IN  /\ baseline.pkMean = mean(pk) /\ baseline.pkStd = StoredStd(pk)
        /\ baseline.faMean = mean(fa) /\ baseline.faStd = StoredStd(fa)
        /\ baseline.boMean = mean(bo) /\ baseline.boStd = StoredStd(bo)

\* C23: a device has no baseline until its window first holds 60 events; the
\* baseline is captured at exactly that event from the statistics of the
\* window, with a deviation of 0 stored as 1, and never changes afterwards.
C23_BaselineCapturedOnce ==
    /\ [](backend = "modular" =>
            \A i \in DOMAIN store.devices :
                LET d == store.devices[i]
                IN  /\ d.baseline.set <=> Len(d.window) >= 60
                    /\ d.baseline.set =>
                          /\ d.baseline.pkStd >= 1
                          /\ d.baseline.faStd >= 1
                          /\ d.baseline.boStd >= 1)
    /\ [][backend = "modular" =>
            \A i \in DOMAIN store.devices :
                i \in DOMAIN store'.devices =>
                    LET d == store.devices[i]
                        e == store'.devices[i]
                    IN  /\ d.baseline.set => e.baseline = d.baseline
                        /\ ~d.baseline.set /\ e.baseline.set =>
                              /\ Len(d.window) = 59
                              /\ Len(e.window) = 60
                              /\ CapturedFrom(e.window, e.baseline)]_vars

\* C23 witness: a device past its 60th event holds a baseline whose packet
\* deviation was 0 and is stored as 1, while its window has moved on.
C23_Witness ==
    /\ backend = "modular"
    /\ \E i \in DOMAIN store.devices :
          LET d == store.devices[i]
          IN  /\ Len(d.window) > 60
              /\ d.baseline.set
              /\ d.baseline.pkStd = 1
              /\ std([k \in 1..60 |-> d.window[k].features.packetsPerSec]) = 0
              /\ RecentStats(d.window) # d.baseline


\* the events of one device in the telemetry log, newest first
DeviceLog(id) == SelectSeq(store.telemetry, LAMBDA e : e.deviceId = id)

\* window holds the newest events of log, oldest first
HoldsNewestOf(window, log) ==
    /\ Len(window) = Min(MaxWindow, Len(log))
    /\ \A k \in DOMAIN window : window[k] = log[Len(window) + 1 - k]

\* C24: after every call of processTelemetry the window of each device holds
\* exactly its most recent min(200, n) events in arrival order: never more
\* than 200, the new event last, and the oldest dropped when the window is
\* full.
C24_WindowIsNewestEvents ==
    /\ [](backend = "modular" =>
            \A i \in DOMAIN store.devices :
                /\ Len(store.devices[i].window) <= 200
                /\ HoldsNewestOf(store.devices[i].window,
                                 DeviceLog(store.devices[i].id)))
    /\ [][backend = "modular" =>
            \A i \in DOMAIN store.devices :
                (i \in DOMAIN store'.devices
                   /\ store'.devices[i].window # store.devices[i].window) =>
                    LET w == store.devices[i].window
                        v == store'.devices[i].window
                    IN  /\ v[Len(v)] = store'.telemetry[1]
                        /\ v = IF Len(w) = 200
                               THEN Append(Tail(w), store'.telemetry[1])
                               ELSE Append(w, store'.telemetry[1])]_vars

\* C24 witness: a device that has sent 205 events holds the last 200 of them,
\* its first five events gone from the window.
C24_Witness ==
    /\ backend = "modular"
    /\ store.stats.totalEvents = 205
    /\ \E i \in DOMAIN store.devices :
          LET w == store.devices[i].window
          IN  /\ Len(w) = 200
              /\ w[200] = store.telemetry[1]
              /\ w[1] = store.telemetry[200]
              /\ w[1] # store.telemetry[205]


\* ---------------------------------------------------------------------------
\* Verdict runs: the modular backend is handed feature vectors whose scores
\* lie next to the detection threshold
\* ---------------------------------------------------------------------------

VerdictEvents == 3

\* scores 0.5500 (at the threshold), 0.5501 (above it, recorded as 0.550),
\* 0.5575 (above it, recorded as 0.558), a quiet and a loud vector
VerdictInputs ==
    { <<[packetsPerSec |-> 288, failedAuth |-> 5, bytesOut |-> 25000], "Normal">>,
      <<[packetsPerSec |-> 288, failedAuth |-> 5, bytesOut |-> 25400], "Attack">>,
      <<[packetsPerSec |-> 289, failedAuth |-> 5, bytesOut |-> 25400], "Attack">>,
      <<[packetsPerSec |-> 200, failedAuth |-> 5, bytesOut |-> 25000], "Normal">>,
      <<[packetsPerSec |-> 900, failedAuth |-> 60, bytesOut |-> 90000], "">> }

\* the drift levels of the verdict runs: thresholds 0.55, 0.5515 and 0.70
VerdictDriftInputs == {0, 1, 100}

VerdictNext ==
    \/ CreateDevice
    \/ \E level \in VerdictDriftInputs : setDrift(level)
    \/ ProcessTelemetryWithin(VerdictEvents, VerdictInputs)

VerdictSpec == Init /\ [][VerdictNext]_vars

\* C25 as stated: every recorded event has predicted = Attack exactly when
\* its recorded score is strictly greater than its recorded threshold.
C25_RecordedVerdictMatchesRecordedValues ==
    backend = "modular" =>
        \A i \in DOMAIN store.telemetry :
            (store.telemetry[i].predicted = "Attack")
                <=> (store.telemetry[i].score > store.telemetry[i].threshold)

\* C25: every event recorded by processTelemetry has predicted = Attack
\* exactly when its score before rounding is strictly greater than the
\* threshold before rounding; of the recorded values, rounded to 3 decimals,
\* an Attack event has score >= threshold and a Normal event has
\* score <= threshold.
C25_VerdictFollowsUnroundedScore ==
    /\ [](backend = "modular" =>
            \A i \in DOMAIN store.telemetry :
                LET e == store.telemetry[i]
                IN  /\ e.predicted \in {"Attack", "Normal"}
                    /\ e.score = ToFixed3(anomalyScore(e.features))
                    /\ e.predicted = "Attack" => e.score >= e.threshold
                    /\ e.predicted = "Normal" => e.score <= e.threshold
                    /\ e.score > e.threshold => e.predicted = "Attack")
    /\ [][backend = "modular" =>
            \A i \in 1..(store'.stats.totalEvents - store.stats.totalEvents) :
                LET e == store'.telemetry[i]
                    raw == 5500 + 15 * store.environment.driftLevel
                IN  /\ e.threshold = ToFixed3(raw)
                    /\ (e.predicted = "Attack") <=> (anomalyScore(e.features) > raw)]_vars

\* C25 witness: an event predicted Attack on a score of 0.5501 against the
\* threshold 0.55 is recorded with score 0.550 and threshold 0.550.
C25_Witness ==
    /\ backend = "modular"
    /\ \E i \in DOMAIN store.telemetry :
          /\ store.telemetry[i].predicted = "Attack"
          /\ anomalyScore(store.telemetry[i].features) = 5501
          /\ store.telemetry[i].score = 550
          /\ store.telemetry[i].threshold = 550


\* the six series of the modular backend
SeriesNames == {"t", "f1", "fpRate", "globalAccuracy", "attackLevel", "driftLevel"}

\* what a snapshot of the store puts in each series
SnapshotOf(st) ==
    [ t              |-> st.stats.totalEvents,
      f1             |-> st.stats.f1,
      fpRate         |-> st.stats.fpRate,
      globalAccuracy |-> st.globalModel.accuracy,
      attackLevel    |-> st.environment.attackLevel,
      driftLevel     |-> st.environment.driftLevel ]

\* C26: in the modular backend a time-series point is appended exactly when
\* totalEvents becomes a multiple of 10: the length of timeseries.t is
\* min(250, totalEvents div 10), the six series have equal length, and index
\* i of each describes the same snapshot (the one taken at the event whose
\* number is t[i]).
C26_SeriesFollowEveryTenthEvent ==
    /\ [](backend = "modular" =>
            LET ts == store.stats.timeseries
                n == store.stats.totalEvents \div 10
            IN  /\ Len(ts.t) = Min(250, n)
                /\ \A name \in SeriesNames : Len(ts[name]) = Len(ts.t)
                /\ \A i \in DOMAIN ts.t : ts.t[i] = 10 * (n - Len(ts.t) + i))
    /\ [][(backend = "modular"
             /\ store'.stats.totalEvents = store.stats.totalEvents + 1) =>
            LET old == store.stats.timeseries
                new == store'.stats.timeseries
            IN  IF store'.stats.totalEvents % 10 # 0
                THEN new = old
                ELSE \A name \in SeriesNames :
                        new[name] = IF Len(old[name]) = 250
                                    THEN Append(Tail(old[name]), SnapshotOf(store')[name])
                                    ELSE Append(old[name], SnapshotOf(store')[name])]_vars

\* C26 witness: after 105 events the six series hold 10 points each, taken
\* at events 10, 20, ..., 100, and the f1 and the drift series are not
\* constant.
C26_Witness ==
    /\ backend = "modular"
    /\ store.stats.totalEvents = 105
    /\ \A name \in SeriesNames : Len(store.stats.timeseries[name]) = 10
    /\ store.stats.timeseries.t[1] = 10
    /\ store.stats.timeseries.t[10] = 100
    /\ store.stats.timeseries.f1[1] # store.stats.timeseries.f1[10]
    /\ store.stats.timeseries.driftLevel[1] # store.stats.timeseries.driftLevel[5]


\* C27: in server.js, after every pushTimeseriesPoint (each tick and each
\* round) the last element of timeseries.t, f1 and globalAccuracy is the point
\* just appended, also when 200 points were already stored.
C27_SeriesEndsWithNewestPoint ==
    [][(backend = "server" /\ clock' = clock + 1) =>
          /\ timeseries'.t[Len(timeseries'.t)] = clock'
          /\ timeseries'.f1[Len(timeseries'.f1)] = stats'.f1
          /\ timeseries'.globalAccuracy[Len(timeseries'.globalAccuracy)]
                = globalModel'.accuracy]_vars


\* C28: in every reachable state environment.simulatorRunning is true exactly
\* when a scheduler timer is active, the active timer is the one the handle
\* names, and at most one timer is ever active, in both backends.
C28_RunningIffTimerActive ==
    /\ backend = "modular" =>
          /\ store.environment.simulatorRunning <=> intervals # {}
          /\ store.environment.simulatorRunning <=> timer # 0
          /\ \A t \in intervals : t.id = timer
          /\ \A t, u \in intervals : t = u
    /\ backend = "server" =>
          /\ environment.simulatorRunning <=> srvIntervals # {}
          /\ environment.simulatorRunning <=> simTimer # 0
          /\ \A t \in srvIntervals : t.id = simTimer
          /\ \A t, u \in srvIntervals : t = u

\* C28 witness: server.js runs its scheduler on one timer, with ticks behind
\* it and its flag set.
C28_Witness ==
    /\ backend = "server"
    /\ environment.simulatorRunning
    /\ simTimer # 0
    /\ \E t \in srvIntervals : srvIntervals = {t} /\ t.id = simTimer
    /\ clock > 0


\* log is what before becomes when k events are put in front of it and the
\* log is cut to cap entries: the older entries keep their order, moved k
\* places back, and the entries past the cap, the oldest, are gone
NewestInFront(before, log, k, cap) ==
    /\ Len(log) = Min(cap, Len(before) + k)
    /\ \A j \in (k + 1)..Len(log) : log[j] = before[j - k]

\* C29: between resets the telemetry log holds exactly the most recent
\* min(cap, totalEvents) events, newest first (cap 600 in store.js, 200 in
\* server.js): its length is min(cap, totalEvents), its first element is the
\* event processed last, and eviction removes the oldest events.
C29_LogIsNewestFirst ==
    /\ [](/\ backend = "modular" =>
                Len(store.telemetry) = Min(600, store.stats.totalEvents)
          /\ backend = "server" =>
                Len(telemetry) = Min(200, stats.totalEvents))
    /\ [][/\ (backend = "modular"
                /\ store'.stats.totalEvents > store.stats.totalEvents) =>
                /\ NewestInFront(store.telemetry, store'.telemetry,
                                 store'.stats.totalEvents - store.stats.totalEvents, 600)
                /\ \E i \in DOMAIN store'.devices :
                      /\ store'.devices[i].id = store'.telemetry[1].deviceId
                      /\ store'.devices[i].window[Len(store'.devices[i].window)]
                            = store'.telemetry[1]
          /\ (backend = "server" /\ stats'.totalEvents > stats.totalEvents) =>
                LET k == stats'.totalEvents - stats.totalEvents
                IN  /\ NewestInFront(telemetry, telemetry', k, 200)
                    /\ Len(TickEvents(broadcasts')) = k
                    /\ \A j \in 1..k :
                          telemetry'[j] = TickEvents(broadcasts')[k + 1 - j]]_vars

\* C29 witness: server.js has processed 210 events; its log holds the 200
\* newest, the first from the last tick and the last from the fourth tick.
C29_Witness ==
    /\ backend = "server"
    /\ stats.totalEvents = 210
    /\ Len(telemetry) = 200
    /\ telemetry[1].ts = clock
    /\ telemetry[200].ts = 4
    /\ clock = 70


\* ---------------------------------------------------------------------------
\* Selection runs: the interval callback of simulator.js taken one step of
\* its selection loop at a time. The callback runs to completion: while its
\* loop runs no other operation of the process takes place.
\* ---------------------------------------------------------------------------

SelectEvents == 2

\* the environments and the draws of the selection runs
SelectAttackInputs == { <<"none", 0>>, <<"ddos", 100>> }
SelectDraws == { <<Quiet, Quiet, Quiet>>, <<Loud, Loud, Loud>> }

\* Array.from(store.devices.keys())
DeviceIds == { store.devices[i].id : i \in DOMAIN store.devices }

\* the ids in selected
SelectedIds == { selection.selected[i] : i \in DOMAIN selection.selected }

\* the callback up to the loop: it returns on an empty registry, else it
\* computes count and starts with selected = []
TickEnter ==
    /\ backend = "modular"
    /\ UNCHANGED backend
    /\ intervals # {}
    /\ ~selection.running
    /\ store.stats.totalEvents < SelectEvents
    /\ IF DeviceIds = {}
       THEN /\ out' = << >>
            /\ UNCHANGED selection
       ELSE /\ selection' = [ running  |-> TRUE,
                              count    |-> SelectCount(store.environment,
                                                       Cardinality(DeviceIds)),
                              selected |-> << >> ]
            /\ UNCHANGED out
    /\ UNCHANGED <<store, timer, intervals>>
    /\ UNCHANGED srvVars

\* one turn of "while (selected.length < count)": pickOne(deviceIds) returns
\* any of the ids, which is pushed unless selected includes it
PickOneStep ==
    /\ backend = "modular"
    /\ UNCHANGED backend
    /\ selection.running
    /\ Len(selection.selected) < selection.count
    /\ \E id \in DeviceIds :
          selection' = [selection EXCEPT !.selected =
                           IF id \in SelectedIds THEN @ ELSE Append(@, id)]
    /\ UNCHANGED <<store, timer, intervals, out>>
    /\ UNCHANGED srvVars

\* the loop is left with selected.length = count; "for (const id of selected)"
\* follows and the callback returns
TickBody ==
    /\ backend = "modular"
    /\ UNCHANGED backend
    /\ selection.running
    /\ Len(selection.selected) >= selection.count
    /\ \E draws \in SelectDraws :
          TickLeaves(TickLoop([st |-> store, out |-> << >>],
                              selection.selected, draws, 1))
    /\ selection' = [selection EXCEPT !.running = FALSE]
    /\ UNCHANGED <<timer, intervals>>
    /\ UNCHANGED srvVars

SelectNext ==
    \/ ~selection.running /\ CreateDevice
    \/ ~selection.running /\ \E a \in SelectAttackInputs : setAttack(a[1], a[2])
    \/ ~selection.running /\ startSimulator(500)
    \/ ~selection.running /\ stopSimulator
    \/ TickEnter
    \/ PickOneStep
    \/ TickBody

\* the picks are fair: while an id is missing from selected, a pick of a
\* missing id is not put off for ever
SelectSpec == Init /\ [][SelectNext]_vars /\ WF_vars(PickOneStep)

\* C30: the selection loop of a tick always terminates under fair picks (a
\* running loop reaches selected.length = count, where its condition fails):
\* the count it is asked for is 1, or min(3, number of registered devices)
\* for ddos, and never exceeds the number of distinct ids; while it runs
\* selected holds pairwise distinct registered ids; it exits with exactly
\* count of them.
C30_SelectionLoopTerminates ==
    /\ [](selection.running =>
            /\ selection.count =
                  (IF store.environment.attackType = "ddos"
                   THEN Min(3, Cardinality(DeviceIds)) ELSE 1)
            /\ selection.count >= 1
            /\ selection.count <= Cardinality(DeviceIds)
            /\ Len(selection.selected) <= selection.count
            /\ SelectedIds \subseteq DeviceIds
            /\ Cardinality(SelectedIds) = Len(selection.selected))
    /\ [][(selection.running /\ ~selection'.running) =>
            /\ Len(selection.selected) = selection.count
            /\ Cardinality(SelectedIds) = selection.count
            /\ SelectedIds \subseteq DeviceIds
            /\ selection.selected \in Selections(DeviceIds, selection.count)]_vars
    /\ (selection.running ~> (Len(selection.selected) = selection.count))

\* C30 witness: under ddos with three registered devices a tick has left its
\* loop with three distinct ids and has handed three events to the sink.
C30_Witness ==
    /\ backend = "modular"
    /\ store.environment.attackType = "ddos"
    /\ ~selection.running
    /\ selection.count = 3
    /\ Cardinality(SelectedIds) = 3
    /\ Len(out) = 3

====
